---------------------------- MODULE Spec2Model ----------------------------
(***************************************************************************)
(* Feature location in a combinatorially generated software product line. *)
(* The module models features.hpp (the taxonomy, the systems and the three *)
(* isolation strategies) and the difference_expression_generator of fl.cpp.*)
(*                                                                         *)
(* Representation.                                                         *)
(*  - std::string is a sequence of one-character strings, so that          *)
(*    concatenation, std::to_string and the lexicographic order used by    *)
(*    std::sort and std::set are computed and not assumed.                 *)
(*  - uintmax_t values that can exceed the range of TLC's integers (set    *)
(*    difference IDs, feature values, bit masks, S and D) are "words": the *)
(*    set of the positions 0..WordBits-1 of their 1 bits.  Counters and    *)
(*    counts, which stay small for the modelled inputs, are naturals.      *)
(*  - a C++ vector is a sequence, a std::set is a set, a std::map is a     *)
(*    function on its key set.                                             *)
(***************************************************************************)
EXTENDS Integers, Sequences, FiniteSets, TLC

(***************************************************************************)
(* Bounds of the model.                                                    *)
(***************************************************************************)
\* largest number of independent features given to the constructors
MaxF == 4
\* largest number of independent features of the wide specification
MaxFWide == 6
\* largest number of difference IDs the exhaustive loop is stepped through
MaxIds == 255
\* the largest model id a run is started with (the catalog ends at 19)
MaxM == 20
\* largest number of elements a combination_t is constructed with
MaxN == 5
\* largest number of calls of next() after it has returned false
MaxExtra == 2
\* how far beyond F() and S() the arguments of the generator calls go
MaxBeyond == 2
\* largest argument n of the calls of the combinatorics functions
MaxArg == 20
\* the run with the exhaustive search in full: its largest number of
\* independent features, the models run with that number, and the passes of
\* the loop taken in one step
LongF == 4
LongModels == {9, 19}
ChunkIds == 512

(***************************************************************************)
(* uintmax_t as a word of WordBits bits.                                   *)
(***************************************************************************)
WordBits == 64

BitPos == 0 .. (WordBits - 1)

SetMax(ss) == CHOOSE xm \in ss : \A ym \in ss : ym <= xm
SetMin(ss) == CHOOSE xm \in ss : \A ym \in ss : xm <= ym

(***************************************************************************)
(* A for loop: step(st, i) is applied for i = lo, lo + 1, ..., hi - 1 in   *)
(* this order to the loop's variables st.  The range is halved and the     *)
(* state after the first half is evaluated before the second half starts,  *)
(* which keeps the evaluation stack shallow.                               *)
(***************************************************************************)
RECURSIVE Iterate(_, _, _, _)
Iterate(step(_, _), st, lo, hi) ==
  IF hi <= lo THEN st
  ELSE IF hi = lo + 1 THEN step(st, lo)
  ELSE CHOOSE done \in {Iterate(step, left, (lo + hi) \div 2, hi) :
                           left \in {Iterate(step, st, lo, (lo + hi) \div 2)}} : TRUE

RECURSIVE Pow2(_)
Pow2(pk) == IF pk = 0 THEN 1 ELSE 2 * Pow2(pk - 1)

\* the bit positions of a natural number (TLC's integers are below 2^31)
IntBits == 0 .. 30

\* the value of a word that fits a TLC integer
WVal(w) == LET add(acc, pb) == IF pb \in w THEN acc + Pow2(pb) ELSE acc
           IN Iterate(add, 0, 0, 31)

\* the word of a natural number below 2^31
WOf(v) == {pb \in IntBits : (v \div Pow2(pb)) % 2 = 1}

WZero == {}
WOne == {0}
WOr(a, b) == a \cup b
WAnd(a, b) == a \cap b
WXor(a, b) == (a \ b) \cup (b \ a)
WNot(a) == BitPos \ a
\* a << 1: the bit shifted out of the word is lost
WShl1(a) == {b + 1 : b \in a} \cap BitPos
\* 1llu << s, for s below the width of the word
WBit(s) == {s}
\* a < b
WLess(a, b) == a # b /\ SetMax(WXor(a, b)) \in b
\* ++a (modulo 2^WordBits)
WInc(a) == LET zeros == BitPos \ a
           IN IF zeros = {} THEN {}
              ELSE LET kz == SetMin(zeros) IN (a \ (0 .. kz)) \cup {kz}

\* a + b (modulo 2^WordBits): the carry runs from bit 0 upwards
WAdd(a, b) ==
  LET body(st, pb) ==
        LET ones == (IF pb \in a THEN 1 ELSE 0) + (IF pb \in b THEN 1 ELSE 0) + st.carry
        IN [sum |-> IF ones % 2 = 1 THEN st.sum \cup {pb} ELSE st.sum,
            carry |-> ones \div 2]
  IN Iterate(body, [sum |-> {}, carry |-> 0], 0, WordBits).sum
\* a - b (modulo 2^WordBits)
WSub(a, b) == WAdd(WAdd(a, WNot(b)), WOne)
\* a * b (modulo 2^WordBits): a shifted by every 1 bit of b, added up
WMul(a, b) ==
  LET body(acc, pb) ==
        IF pb \in b THEN WAdd(acc, {qb + pb : qb \in a} \cap BitPos) ELSE acc
  IN Iterate(body, WZero, 0, WordBits)
\* a / b for b # 0: the quotient bits from the highest to the lowest
WDiv(a, b) ==
  LET body(st, pi) ==
        LET pb == WordBits - 1 - pi
            rem == WOr(WShl1(st.rem), IF pb \in a THEN WOne ELSE WZero)
        IN IF WLess(rem, b) THEN [quot |-> st.quot, rem |-> rem]
           ELSE [quot |-> st.quot \cup {pb}, rem |-> WSub(rem, b)]
  IN Iterate(body, [quot |-> {}, rem |-> {}], 0, WordBits).quot

(***************************************************************************)
(* std::string.                                                            *)
(***************************************************************************)
\* the character codes of the characters the program writes
Ord(c) == CASE c = " " -> 32 [] c = "!" -> 33 [] c = "*" -> 42 [] c = "+" -> 43
            [] c = "0" -> 48 [] c = "1" -> 49 [] c = "2" -> 50 [] c = "3" -> 51
            [] c = "4" -> 52 [] c = "5" -> 53 [] c = "6" -> 54 [] c = "7" -> 55
            [] c = "8" -> 56 [] c = "9" -> 57 [] c = "E" -> 69 [] c = "S" -> 83
            [] c = "f" -> 102

\* operator< of std::string
StrLess(a, b) ==
  LET common == IF Len(a) < Len(b) THEN Len(a) ELSE Len(b)
      diff == {ip \in 1 .. common : a[ip] # b[ip]}
  IN IF diff = {} THEN Len(a) < Len(b)
     ELSE Ord(a[SetMin(diff)]) < Ord(b[SetMin(diff)])

\* std::sort of a vector of strings
sort(v) == SortSeq(v, StrLess)

Digits == <<"0", "1", "2", "3", "4", "5", "6", "7", "8", "9">>

\* std::to_string of an unsigned value
RECURSIVE to_string(_)
to_string(v) == IF v < 10 THEN <<Digits[v + 1]>>
                ELSE to_string(v \div 10) \o <<Digits[(v % 10) + 1]>>

feature_and == <<"*">>
feature_or == <<"+">>
feature_not == <<"!">>
feature == <<"f">>
feature_separator == <<" ">>
system == <<"S">>
difference_expression == <<"E">>

(***************************************************************************)
(* Combinatorics utilities.                                                *)
(***************************************************************************)
product(from, to) ==
  IF from = 0 \/ to = 0 THEN 0
  ELSE LET RECURSIVE Loop(_, _)
           Loop(result, pt) == IF from <= pt THEN Loop(result * pt, pt - 1) ELSE result
       IN Loop(1, to)

factorial(k) == IF k = 0 THEN 1 ELSE product(1, k)

\* a slip in the lower end of the product: n - k in place of n + 1 - k
combinations_low(nn, k) == product(nn - k, nn) \div factorial(k)

combinations(nn, k) == product(nn + 1 - k, nn) \div factorial(k)

sum_of_combinations(nn, k0) ==
  LET RECURSIVE Loop(_, _)
      Loop(result, pk) == IF pk <= nn THEN Loop(result + combinations(nn, pk), pk + 1)
                          ELSE result
  IN Loop(0, k0)

\* The same four functions with their maxnat_t arithmetic at its width: the
\* arguments are naturals, the products, quotients and sums are words.
product_w(from, to) ==
  IF from = 0 \/ to = 0 THEN WZero
  ELSE LET body(result, pi) == WMul(result, WOf(to - pi))
       IN Iterate(body, WOne, 0, to - from + 1)

factorial_w(k) == IF k = 0 THEN WOne ELSE product_w(1, k)

combinations_w(nn, k) == WDiv(product_w(nn + 1 - k, nn), factorial_w(k))

sum_of_combinations_w(nn, k0) ==
  LET body(result, pk) == WAdd(result, combinations_w(nn, pk))
  IN Iterate(body, WZero, k0, nn + 1)

\* power(2, exponent): result *= 2, exponent times, in a word
power2(exponent) == LET mul(result, pe) == WShl1(result)
                    IN Iterate(mul, WOne, 0, exponent)

\* contains(v, e) for a vector v
contains(v, e) == \E i \in 1 .. Len(v) : v[i] = e

\* negate(v, n): the ids of 1..n that are not in v, ascending
negate(v, nn) ==
  LET body(result, pi) == IF ~contains(v, pi) THEN Append(result, pi) ELSE result
  IN Iterate(body, <<>>, 1, nn + 1)

(***************************************************************************)
(* Model catalog.                                                          *)
(***************************************************************************)
\* a slip in the table: model 1 is listed among the models with or-features
hasO_with_1(m) == m \in {1, 2, 4, 6, 8, 11, 13, 14, 16, 17, 19}

hasO(m) == m \in {2, 4, 6, 8, 11, 13, 14, 16, 17, 19}
hasA(m) == m \in {3, 4, 7, 8, 12, 13, 15, 16, 18, 19}
\* a slip in the table: model 9 is missing from the models with not-features
hasN_without_9(m) == m \in {5, 6, 7, 8, 10, 11, 12, 13, 14, 15, 16, 17, 18, 19}

hasN(m) == m \in {5, 6, 7, 8, 9, 10, 11, 12, 13, 14, 15, 16, 17, 18, 19}
hasON(m) == m \in {9, 11, 12, 13, 17, 18, 19}
hasAN(m) == m \in {10, 14, 15, 16, 17, 18, 19}

\* the model ids the programs document as their input range
Models == 1 .. 19

(***************************************************************************)
(* Names.                                                                  *)
(***************************************************************************)
independent_feature_name(i) == feature \o to_string(i)

\* the loop shared by the four names of composite features: the first id
\* prefixed by first, every further id prefixed by separator, op, separator, first
JoinName(ids, first, op) ==
  LET body(result, pi) == result \o feature_separator \o op \o feature_separator
                                 \o first \o to_string(ids[pi])
  IN Iterate(body, first \o to_string(ids[1]), 2, Len(ids) + 1)

\* a slip of the operator symbol: the and symbol in the name of an or-feature
or_feature_name_star(ids) == JoinName(ids, feature, feature_and)

or_feature_name(ids) == JoinName(ids, feature, feature_or)
and_feature_name(ids) == JoinName(ids, feature, feature_and)
not_feature_name(i) == feature_not \o feature \o to_string(i)
or_not_feature_name(ids) == JoinName(ids, feature_not \o feature, feature_or)
and_not_feature_name(ids) == JoinName(ids, feature_not \o feature, feature_and)

\* feature_id_t is an unsigned short: the argument is converted modulo 2^16
UShort(v) == v % 65536
system_name(k) == system \o to_string(UShort(k))

(***************************************************************************)
(* combination_t (features.hpp).  m_state is a vector of 0-based indices   *)
(* into m_symbols; position i of the C++ vector is element i + 1 here.     *)
(***************************************************************************)
\* initialize(): 0, 1, ..., k - 1
combination_initialize(k) == [ci \in 1 .. k |-> ci - 1]

\* a slip in next(): the elements after the incremented one are not reset
combination_next_no_reset(state, nsym, k) ==
  LET ok(ci) == state[ci] < nsym /\ state[ci] + 1 + k - ci < nsym
      cand == {ci \in 1 .. Len(state) : ok(ci)}
  IN IF cand = {} THEN [ret |-> FALSE, state |-> state]
     ELSE LET cm == SetMax(cand)
          IN [ret |-> TRUE,
              state |-> [cj \in 1 .. Len(state) |->
                           IF cj = cm THEN state[cm] + 1 ELSE state[cj]]]

\* a slip in next(): the exhausted combination starts over at 0, 1, ..., k - 1
combination_next_wrap(state, nsym, k) ==
  LET ok(ci) == state[ci] < nsym /\ state[ci] + 1 + k - ci < nsym
      cand == {ci \in 1 .. Len(state) : ok(ci)}
  IN IF cand = {} THEN [ret |-> FALSE, state |-> [ci \in 1 .. Len(state) |-> ci - 1]]
     ELSE LET cm == SetMax(cand)
          IN [ret |-> TRUE,
              state |-> [cj \in 1 .. Len(state) |->
                           IF cj < cm THEN state[cj] ELSE state[cm] + 1 + (cj - cm)]]

\* next(): [ret |-> the value returned, state |-> m_state afterwards]
combination_next(state, nsym, k) ==
  LET ok(ci) == state[ci] < nsym /\ state[ci] + 1 + k - ci < nsym
      cand == {ci \in 1 .. Len(state) : ok(ci)}
  IN IF cand = {} THEN [ret |-> FALSE, state |-> state]
     ELSE LET cm == SetMax(cand)
          IN [ret |-> TRUE,
              state |-> [cj \in 1 .. Len(state) |->
                           IF cj < cm THEN state[cj] ELSE state[cm] + 1 + (cj - cm)]]

\* operator()(): the symbols of the current combination
combination_value(symbols, state) == [ci \in 1 .. Len(state) |-> symbols[state[ci] + 1]]

\* do { push_back(c()); } while (c.next()); for one combination_t(symbols, k)
all_combinations(symbols, k) ==
  LET RECURSIVE Loop(_, _)
      Loop(result, state) ==
        LET r == Append(result, combination_value(symbols, state))
            nx == combination_next(state, Len(symbols), k)
        IN IF r = r /\ nx.ret THEN Loop(r, nx.state) ELSE r
  IN Loop(<<>>, combination_initialize(k))

\* for (k = from; k <= to; ++k) { combination_t c(symbols, k); do ... while }
combinations_from_to(symbols, from, to) ==
  LET body(result, pk) == result \o all_combinations(symbols, pk)
  IN Iterate(body, <<>>, from, to + 1)

(***************************************************************************)
(* feature_location_t: the feature names that define one system.  f is the *)
(* vector of the ids of the independent features the system has, m the     *)
(* model, nn the number of independent features and raw the vector         *)
(* m_raw_dependent_features.                                               *)
(***************************************************************************)
\* unsigned2vector(u), for a system id u (a natural below 2^31)
unsigned2vector(u) ==
  LET w == WOf(u)
      body(result, bit) == IF bit \in w THEN Append(result, bit + 1) ELSE result
  IN Iterate(body, <<>>, 0, WordBits)

\* the constructor's loops that fill m_raw_independent_features
raw_independent_features(nn) == [ri \in 1 .. nn |-> ri]

\* the constructor's loops that fill m_raw_dependent_features
raw_dependent_features(nn) == combinations_from_to(raw_independent_features(nn), 2, nn)

sys_independent_features(f) == [fi \in 1 .. Len(f) |-> independent_feature_name(f[fi])]

\* generate_or_features(f): over the ids in f and the combinations in
\* m_raw_dependent_features, a name is appended when its combination contains
\* the id and the name is not in the result yet
sys_or_features(f, m, raw) ==
  IF hasO(m)
  THEN LET outer(res1, ix) ==
             LET inner(res2, jx) ==
                   IF contains(raw[jx], f[ix]) /\ ~contains(res2, or_feature_name(raw[jx]))
                   THEN Append(res2, or_feature_name(raw[jx])) ELSE res2
             IN Iterate(inner, res1, 1, Len(raw) + 1)
       IN sort(Iterate(outer, <<>>, 1, Len(f) + 1))
  ELSE <<>>

\* a slip in the test of the and loop: one id of the combination in f suffices
sys_and_features_any(f, m, raw) ==
  IF hasA(m)
  THEN LET valid(c) == \E jx \in 1 .. Len(c) : contains(f, c[jx])
           body(result, ix) ==
             IF valid(raw[ix]) THEN Append(result, and_feature_name(raw[ix])) ELSE result
       IN sort(Iterate(body, <<>>, 1, Len(raw) + 1))
  ELSE <<>>

\* generate_and_features(f): a name is appended when every id of its
\* combination is in f
sys_and_features(f, m, raw) ==
  IF hasA(m)
  THEN LET valid(c) == \A jx \in 1 .. Len(c) : contains(f, c[jx])
           body(result, ix) ==
             IF valid(raw[ix]) THEN Append(result, and_feature_name(raw[ix])) ELSE result
       IN sort(Iterate(body, <<>>, 1, Len(raw) + 1))
  ELSE <<>>

sys_not_features(nf, m, nn) ==
  IF hasN(m)
  THEN LET f == negate(nf, nn) IN [fi \in 1 .. Len(f) |-> not_feature_name(f[fi])]
  ELSE <<>>

\* generate_or_not_features(nf): the loop of generate_or_features over negate(nf)
sys_or_not_features(nf, m, nn, raw) ==
  IF hasON(m)
  THEN LET f == negate(nf, nn)
           outer(res1, ix) ==
             LET inner(res2, jx) ==
                   IF contains(raw[jx], f[ix])
                      /\ ~contains(res2, or_not_feature_name(raw[jx]))
                   THEN Append(res2, or_not_feature_name(raw[jx])) ELSE res2
             IN Iterate(inner, res1, 1, Len(raw) + 1)
       IN sort(Iterate(outer, <<>>, 1, Len(f) + 1))
  ELSE <<>>

\* generate_and_not_features(nf): the loop of generate_and_features over negate(nf)
sys_and_not_features(nf, m, nn, raw) ==
  IF hasAN(m)
  THEN LET f == negate(nf, nn)
           valid(c) == \A jx \in 1 .. Len(c) : contains(f, c[jx])
           body(result, ix) ==
             IF valid(raw[ix]) THEN Append(result, and_not_feature_name(raw[ix]))
             ELSE result
       IN sort(Iterate(body, <<>>, 1, Len(raw) + 1))
  ELSE <<>>

generate_system(f, m, nn, raw) ==
  sort(sys_independent_features(f) \o sys_or_features(f, m, raw)
       \o sys_and_features(f, m, raw) \o sys_not_features(f, m, nn)
       \o sys_or_not_features(f, m, nn, raw) \o sys_and_not_features(f, m, nn, raw))

\* generate_all_systems(): element s + 1 is the system with id s; nsys is S()
generate_all_systems(m, nn, raw, nsys) ==
  [sk \in 1 .. nsys |-> generate_system(unsigned2vector(sk - 1), m, nn, raw)]

(***************************************************************************)
(* feature_location_isolation_t: the names of all features of the product  *)
(* line and the isolating difference of every feature.                     *)
(***************************************************************************)
iso_independent_features(nn) == sys_independent_features(raw_independent_features(nn))

iso_or_features(m, nn) ==
  IF hasO(m)
  THEN LET combs == combinations_from_to(raw_independent_features(nn), 2, nn)
       IN [qi \in 1 .. Len(combs) |-> or_feature_name(combs[qi])]
  ELSE <<>>

iso_and_features(m, nn) ==
  IF hasA(m)
  THEN LET combs == combinations_from_to(raw_independent_features(nn), 2, nn)
       IN [qi \in 1 .. Len(combs) |-> and_feature_name(combs[qi])]
  ELSE <<>>

iso_not_features(m, nn) ==
  IF hasN(m) THEN [qi \in 1 .. nn |-> not_feature_name(raw_independent_features(nn)[qi])]
  ELSE <<>>

\* the sample sizes run up to N(), the number of not-features (cntN)
iso_or_not_features(m, nn, cntN) ==
  IF hasON(m)
  THEN LET combs == combinations_from_to(raw_independent_features(nn), 2, cntN)
       IN [qi \in 1 .. Len(combs) |-> or_not_feature_name(combs[qi])]
  ELSE <<>>

\* a slip of the name function: the and-not features get the or-not names
iso_and_not_features_or_names(m, nn, cntN) ==
  IF hasAN(m)
  THEN LET combs == combinations_from_to(raw_independent_features(nn), 2, cntN)
       IN [qi \in 1 .. Len(combs) |-> or_not_feature_name(combs[qi])]
  ELSE <<>>

iso_and_not_features(m, nn, cntN) ==
  IF hasAN(m)
  THEN LET combs == combinations_from_to(raw_independent_features(nn), 2, cntN)
       IN [qi \in 1 .. Len(combs) |-> and_not_feature_name(combs[qi])]
  ELSE <<>>

\* a slip in the numbering: the system number is used before it is incremented
isolate_feature_from_zero(fname, systems) ==
  LET body(difference, sno) ==
        IF contains(systems[sno], fname)
        THEN [difference EXCEPT !.intersections = @ \cup {system_name(sno - 1)}]
        ELSE [difference EXCEPT !.unions = @ \cup {system_name(sno - 1)}]
  IN Iterate(body, [intersections |-> {}, unions |-> {}], 1, Len(systems) + 1)

\* a slip in the scan: the test of the system is lost and every system is united
isolate_feature_all_united(fname, systems) ==
  LET body(difference, sno) ==
        [difference EXCEPT !.unions = @ \cup {system_name(sno)}]
  IN Iterate(body, [intersections |-> {}, unions |-> {}], 1, Len(systems) + 1)

\* the difference of one feature name fname: the scan over all systems
isolate_feature(fname, systems) ==
  LET body(difference, sno) ==
        IF contains(systems[sno], fname)
        THEN [difference EXCEPT !.intersections = @ \cup {system_name(sno)}]
        ELSE [difference EXCEPT !.unions = @ \cup {system_name(sno)}]
  IN Iterate(body, [intersections |-> {}, unions |-> {}], 1, Len(systems) + 1)

\* generate_feature_isolations(): the std::map from feature name to difference
generate_feature_isolations(allf, systems) ==
  [fname \in {allf[qi] : qi \in 1 .. Len(allf)} |-> isolate_feature(fname, systems)]

(***************************************************************************)
(* feature_location_differences_t: the exhaustive search over the IDs.     *)
(***************************************************************************)
\* std::stoull of a string of decimal digits
stoull(str) ==
  LET digit(ch) == CHOOSE dv \in 0 .. 9 : Digits[dv + 1] = ch
      body(acc, di) == 10 * acc + digit(str[di])
  IN Iterate(body, 0, 1, Len(str) + 1)

\* the elements of a std::set<std::string> in the order of its iteration
SetOrder(strs) ==
  LET rank == [str \in strs |-> Cardinality({other \in strs : StrLess(other, str)}) + 1]
  IN IF rank = rank
     THEN [ri \in 1 .. Cardinality(strs) |-> CHOOSE str \in strs : rank[str] = ri]
     ELSE <<>>

\* system2features(s): the features of the system named by str, as a set;
\* "error" stands for the logic_error thrown for a string that names no system
system2features(str, systems) ==
  IF Len(str) < Len(system) + 1 \/ SubSeq(str, 1, Len(system)) # system
  THEN "error"
  ELSE LET pos == stoull(SubSeq(str, Len(system) + 1, Len(str)))
       IN {systems[pos][qi] : qi \in 1 .. Len(systems[pos])}

\* a slip in the loop bound: the last system is left out of the difference
generate_difference_short(sw, nsys) ==
  LET body(result, position) ==
        IF WAnd(sw, WBit(position)) # WZero
        THEN [result EXCEPT !.intersections = @ \cup {system_name(position + 1)}]
        ELSE [result EXCEPT !.unions = @ \cup {system_name(position + 1)}]
  IN Iterate(body, [intersections |-> {}, unions |-> {}], 0, nsys - 1)

\* generate_difference(s) for the difference ID s, a word; nsys is S()
generate_difference(sw, nsys) ==
  LET body(result, position) ==
        IF WAnd(sw, WBit(position)) # WZero
        THEN [result EXCEPT !.intersections = @ \cup {system_name(position + 1)}]
        ELSE [result EXCEPT !.unions = @ \cup {system_name(position + 1)}]
  IN Iterate(body, [intersections |-> {}, unions |-> {}], 0, nsys)

\* a slip in evaluate_intersections: the features of the first system are
\* returned and the other systems are not intersected
evaluate_intersections_first_only(diff, systems) ==
  IF Cardinality(diff.intersections) >= 1
  THEN system2features(SetOrder(diff.intersections)[1], systems)
  ELSE {}

\* evaluate_intersections(diff): the fold stops at the first empty result
evaluate_intersections(diff, systems) ==
  IF Cardinality(diff.intersections) >= 1
  THEN LET order == SetOrder(diff.intersections)
           body(acc, oi) ==
             IF acc.stop THEN acc
             ELSE LET result == acc.result \cap system2features(order[oi], systems)
                  IN [result |-> result, stop |-> result = {}]
       IN Iterate(body, [result |-> system2features(order[1], systems), stop |-> FALSE],
                  2, Len(order) + 1).result
  ELSE {}

\* a slip in the fold: the features of the first system are not united
evaluate_unions_skip_first(diff, systems) ==
  IF Cardinality(diff.unions) >= 1
  THEN LET order == SetOrder(diff.unions)
           body(result, oi) == result \cup system2features(order[oi], systems)
       IN Iterate(body, {}, 2, Len(order) + 1)
  ELSE {}

evaluate_unions(diff, systems) ==
  IF Cardinality(diff.unions) >= 1
  THEN LET order == SetOrder(diff.unions)
           body(result, oi) == result \cup system2features(order[oi], systems)
       IN Iterate(body, system2features(order[1], systems), 2, Len(order) + 1)
  ELSE {}

evaluate_difference(diff, systems) ==
  evaluate_intersections(diff, systems) \ evaluate_unions(diff, systems)

(***************************************************************************)
(* feature_location_calculation_t: the closed-form strategy.  A feature    *)
(* expression is a vector of pairs [name, value], value a word.            *)
(***************************************************************************)
\* initialize_bitmask(): the complement of the bits of the nsys systems
\* a slip in initialize_bitmask: the final complement is missing
initialize_bitmask_low(nsys) ==
  LET body(bitmask, sb) == WOr(bitmask, WBit(sb))
  IN Iterate(body, WZero, 0, nsys)

initialize_bitmask(nsys) ==
  LET body(bitmask, sb) == WOr(bitmask, WBit(sb))
  IN WNot(Iterate(body, WZero, 0, nsys))

\* a slip in the start value: the first block of the pattern is 0, not 1
independent_feature_value_bit0(f0, nn) ==
  LET stride == WVal(power2(f0))
      body(st, sb) ==
        LET value == WShl1(WOr(st.value, IF st.bit = 1 THEN WOne ELSE WZero))
            counter == st.counter - 1
        IN IF counter = 0
           THEN [value |-> value, bit |-> IF st.bit = 1 THEN 0 ELSE 1, counter |-> stride]
           ELSE [value |-> value, bit |-> st.bit, counter |-> counter]
  IN Iterate(body, [value |-> WZero, bit |-> 0, counter |-> stride],
             0, WVal(power2(nn)) - 1).value

\* the value of the independent feature with the 0-based index f0
independent_feature_value(f0, nn) ==
  LET stride == WVal(power2(f0))
      body(st, sb) ==
        LET value == WShl1(WOr(st.value, IF st.bit = 1 THEN WOne ELSE WZero))
            counter == st.counter - 1
        IN IF counter = 0
           THEN [value |-> value, bit |-> IF st.bit = 1 THEN 0 ELSE 1, counter |-> stride]
           ELSE [value |-> value, bit |-> st.bit, counter |-> counter]
  IN Iterate(body, [value |-> WZero, bit |-> 1, counter |-> stride],
             0, WVal(power2(nn)) - 1).value

calculate_independent_features(nn) ==
  [qi \in 1 .. nn |-> [name |-> independent_feature_name(qi),
                       value |-> independent_feature_value(qi - 1, nn)]]

\* a slip in the fold of the or-value: ^ in place of |
or_feature_value_xor(ids, idf) ==
  LET body(result, vi) == WXor(result, idf[ids[vi]].value)
  IN Iterate(body, WZero, 1, Len(ids) + 1)

or_feature_value(ids, idf) ==
  LET body(result, vi) == WOr(result, idf[ids[vi]].value)
  IN Iterate(body, WZero, 1, Len(ids) + 1)

\* a slip in the start value: the and is folded from 0, as the or is
and_feature_value_from_zero(ids, idf) ==
  LET body(result, vi) == WAnd(result, idf[ids[vi]].value)
  IN Iterate(body, WZero, 1, Len(ids) + 1)

and_feature_value(ids, idf) ==
  LET body(result, vi) == WAnd(result, idf[ids[vi]].value)
  IN Iterate(body, WNot(WZero), 1, Len(ids) + 1)

or_not_feature_value(ids, nf) ==
  LET body(result, vi) == WOr(result, nf[ids[vi]].value)
  IN Iterate(body, WZero, 1, Len(ids) + 1)

\* a slip in the fold of the and-not value: the not-values are united
and_not_feature_value_or(ids, nf, bitmask) ==
  LET body(result, vi) == WOr(result, nf[ids[vi]].value)
  IN Iterate(body, WZero, 1, Len(ids) + 1)

and_not_feature_value(ids, nf, bitmask) ==
  LET body(result, vi) == WAnd(result, nf[ids[vi]].value)
  IN Iterate(body, WNot(bitmask), 1, Len(ids) + 1)

calculate_or_features(m, nn, idf) ==
  IF hasO(m)
  THEN LET combs == combinations_from_to(raw_independent_features(nn), 2, nn)
       IN [qi \in 1 .. Len(combs) |-> [name |-> or_feature_name(combs[qi]),
                                        value |-> or_feature_value(combs[qi], idf)]]
  ELSE <<>>

calculate_and_features(m, nn, idf) ==
  IF hasA(m)
  THEN LET combs == combinations_from_to(raw_independent_features(nn), 2, nn)
       IN [qi \in 1 .. Len(combs) |-> [name |-> and_feature_name(combs[qi]),
                                        value |-> and_feature_value(combs[qi], idf)]]
  ELSE <<>>

\* a slip in the not-value: & in place of ^
calculate_not_features_and(m, idf, bitmask) ==
  IF hasN(m)
  THEN [qi \in 1 .. Len(idf) |-> [name |-> feature_not \o idf[qi].name,
                                  value |-> WNot(WAnd(idf[qi].value, bitmask))]]
  ELSE <<>>

calculate_not_features(m, idf, bitmask) ==
  IF hasN(m)
  THEN [qi \in 1 .. Len(idf) |-> [name |-> feature_not \o idf[qi].name,
                                  value |-> WNot(WXor(idf[qi].value, bitmask))]]
  ELSE <<>>

calculate_or_not_features(m, nn, nf) ==
  IF hasON(m)
  THEN LET combs == combinations_from_to(raw_independent_features(nn), 2, nn)
       IN [qi \in 1 .. Len(combs) |-> [name |-> or_not_feature_name(combs[qi]),
                                        value |-> or_not_feature_value(combs[qi], nf)]]
  ELSE <<>>

calculate_and_not_features(m, nn, nf, bitmask) ==
  IF hasAN(m)
  THEN LET combs == combinations_from_to(raw_independent_features(nn), 2, nn)
       IN [qi \in 1 .. Len(combs) |-> [name |-> and_not_feature_name(combs[qi]),
                                        value |-> and_not_feature_value(combs[qi], nf, bitmask)]]
  ELSE <<>>

\* calculate_difference(index, name); nsys is S()
calculate_difference(index, fname, nsys) ==
  LET body(result, sb) ==
        IF WAnd(index, WBit(sb)) # WZero
        THEN [result EXCEPT !.difference.intersections = @ \cup {system_name(sb + 1)}]
        ELSE [result EXCEPT !.difference.unions = @ \cup {system_name(sb + 1)}]
  IN Iterate(body, [difference_id |-> index, feature |-> fname,
                    difference |-> [intersections |-> {}, unions |-> {}]], 0, nsys)

\* a slip in the comparison: the operands are exchanged
DifferenceLess_reversed(da, db) == WLess(db.difference_id, da.difference_id)

\* the comparison of the sort in calculate_differences
DifferenceLess(da, db) == WLess(da.difference_id, db.difference_id)

\* a slip in calculate_differences: the result is not sorted
calculate_differences_unsorted(allf, nsys) ==
  [qi \in 1 .. Len(allf) |-> calculate_difference(allf[qi].value, allf[qi].name, nsys)]

calculate_differences(allf, nsys) ==
  SortSeq([qi \in 1 .. Len(allf) |-> calculate_difference(allf[qi].value, allf[qi].name, nsys)],
          DifferenceLess)

(***************************************************************************)
(* Printing the results.  A stream is the sequence of the lines written.   *)
(***************************************************************************)
set_intersection == <<"&">>
set_difference == <<"\\">>
set_union == <<"|">>
set_separator == <<" ">>
separator == <<"\t">>
opening_parenthesis == <<"(">>
closing_parenthesis == <<")">>

\* difference_name(n): the parameter is a feature_id_t (unsigned short), so
\* the difference ID passed, a maxnat_t, is converted modulo 2^16
difference_name(nw) == difference_expression \o to_string(WVal(nw \cap (0 .. 15)))

\* print_intersections(s, os): the text written for the set s
print_intersections(s) ==
  LET order == SetOrder(s)
      size == Cardinality(s)
      body(text, counter) ==
        IF counter < size
        THEN text \o order[counter] \o set_separator \o set_intersection \o set_separator
        ELSE text \o order[counter]
  IN Iterate(body, opening_parenthesis \o set_separator, 1, size + 1)
       \o set_separator \o closing_parenthesis

\* print_unions(s, os): the text written for the set s
print_unions(s) ==
  LET order == SetOrder(s)
      size == Cardinality(s)
      body(text, counter) ==
        IF counter < size
        THEN text \o order[counter] \o set_separator \o set_union \o set_separator
        ELSE text \o order[counter]
  IN Iterate(body, opening_parenthesis \o set_separator, 1, size + 1)
       \o set_separator \o closing_parenthesis

\* print_results(os) of the exhaustive and of the closed-form strategy: one
\* line for every element of the collection of differences
print_results(differences) ==
  [qi \in 1 .. Len(differences) |->
     difference_name(differences[qi].difference_id) \o separator
       \o differences[qi].feature \o separator
       \o print_intersections(differences[qi].difference.intersections)
       \o set_separator \o set_difference \o set_separator
       \o print_unions(differences[qi].difference.unions)]

(***************************************************************************)
(* fl.cpp: combination_t.  m_state holds the combination itself, a vector  *)
(* of combination_element_t (unsigned short).                              *)
(***************************************************************************)
\* initialize(): 0, 1, ..., k - 1
fl_combination_initialize(k) == [ci \in 1 .. k |-> UShort(ci - 1)]

\* next(): [ret |-> the value returned, state |-> m_state afterwards]
fl_combination_next(state, n, k) ==
  LET ok(ci) == state[ci] < n /\ state[ci] + 1 + k - ci < n
      cand == {ci \in 1 .. Len(state) : ok(ci)}
  IN IF cand = {} THEN [ret |-> FALSE, state |-> state]
     ELSE LET cm == SetMax(cand)
          IN [ret |-> TRUE,
              state |-> [cj \in 1 .. Len(state) |->
                           IF cj < cm THEN state[cj]
                           ELSE UShort(state[cm] + 1 + (cj - cm))]]

(***************************************************************************)
(* fl.cpp: difference_expression_generator.  A difference expression is a  *)
(* vector<bool>; element i + 1 here is element i of the C++ vector.        *)
(***************************************************************************)
ceil_div(xd, yd) == (xd \div yd) + (IF xd % yd # 0 THEN 1 ELSE 0)

\* power(2, f - 1) of operator()(f) and operator()(f, s).  For f = 0 the
\* exponent f - 1 wraps to 2^64 - 1; the product is 0 from the 64th
\* multiplication on, so WordBits multiplications give the value of all of them
dg_stride(f) == IF f = 0 THEN WVal(power2(WordBits)) ELSE WVal(power2(f - 1))

\* operator()(f): the bitstring of the independent feature f; nsys is S()
dg_bitstring(f, nsys) ==
  LET stride == dg_stride(f)
      body(st, sb) ==
        LET counter == st.counter + 1
        IN IF counter = stride
           THEN [bitstring |-> Append(st.bitstring, st.bit), bit |-> ~st.bit, counter |-> 0]
           ELSE [bitstring |-> Append(st.bitstring, st.bit), bit |-> st.bit,
                 counter |-> counter]
  IN Iterate(body, [bitstring |-> <<>>, bit |-> FALSE, counter |-> 0], 0, nsys).bitstring

\* a slip in the closed form: the quotient is rounded down, not up
dg_bit_floor(f, sd) == ~((sd \div WVal(power2(f - 1))) % 2 # 0)

\* operator()(f, s): the bit of the 1-based system sd in the expression of f
dg_bit(f, sd) == ~(ceil_div(sd, dg_stride(f)) % 2 # 0)

\* operator<<: the elements from the last to the first, written as 0 and 1
de_text(de) == [qi \in 1 .. Len(de) |-> IF de[Len(de) + 1 - qi] THEN "1" ELSE "0"]

\* the lines print_independent_features writes: f<f> TAB <bitstring>
print_independent_features(nf, nsys) ==
  [qi \in 1 .. nf |-> <<"f">> \o to_string(qi) \o <<"\t">> \o de_text(dg_bitstring(qi, nsys))]

\* the lines print_independent_features_alt writes: f<f> TAB and the values
\* dg(f, s) for s = S, S - 1, ..., 2 (the loop runs while s > 1)
print_independent_features_alt(nf, nsys) ==
  [qi \in 1 .. nf |->
     LET body(line, sx) ==
           line \o <<IF dg_bit(qi, nsys - sx) THEN "1" ELSE "0">>
     IN Iterate(body, <<"f">> \o to_string(qi) \o <<"\t">>, 0, nsys - 1)]

\* operator~: every element negated
de_not(de) == [qi \in 1 .. Len(de) |-> ~de[qi]]

\* the value operator&= and operator|= throw when the sizes differ
length_error == <<"length_error">>

\* operator&=: left after the assignment
de_and_assign(left, right) ==
  IF Len(left) # Len(right) THEN length_error
  ELSE [qi \in 1 .. Len(left) |-> left[qi] /\ right[qi]]

\* operator|=: left after the assignment
de_or_assign(left, right) ==
  IF Len(left) # Len(right) THEN length_error
  ELSE [qi \in 1 .. Len(left) |-> left[qi] \/ right[qi]]

\* do { ... c() ... } while (c.next()); for one combination_t c(n, k) of
\* fl.cpp: the vectors c() returns, in the order of the loop
RECURSIVE fl_combinations_loop(_, _, _, _)
fl_combinations_loop(result, state, n, k) ==
  LET r == Append(result, state)
      nx == fl_combination_next(state, n, k)
  IN IF r = r /\ nx.ret THEN fl_combinations_loop(r, nx.state, n, k) ELSE r

\* for (f = 2; f <= F; ++f) { combination_t c(F, f); do ... while }: the
\* constructor's argument n is F converted to combination_element_t
fl_all_combinations(nf) ==
  LET body(result, pk) ==
        result \o fl_combinations_loop(<<>>, fl_combination_initialize(pk), UShort(nf), pk)
  IN Iterate(body, <<>>, 2, nf + 1)

\* the lines print_not_features writes: !f<f> TAB <bitstring of ~dg(f)>
print_not_features(nf, nsys) ==
  [qi \in 1 .. nf |->
     <<"!", "f">> \o to_string(qi) \o <<"\t">> \o de_text(de_not(dg_bitstring(qi, nsys)))]

\* the lines print_and_features writes: f<a>*f<b>... TAB <bitstring>
print_and_features(nf, nsys) ==
  LET combs == fl_all_combinations(nf)
      line(features) ==
        LET body(st, ex) ==
              [result |-> de_and_assign(st.result, dg_bitstring(features[ex] + 1, nsys)),
               i |-> st.i \o <<"*", "f">> \o to_string(features[ex] + 1)]
            st == Iterate(body, [result |-> dg_bitstring(features[1] + 1, nsys),
                                 i |-> <<"f">> \o to_string(features[1] + 1)],
                          2, Len(features) + 1)
        IN st.i \o <<"\t">> \o de_text(st.result)
  IN [qi \in 1 .. Len(combs) |-> line(combs[qi])]

\* the lines print_or_features writes: f<a>+f<b>... TAB <bitstring>
print_or_features(nf, nsys) ==
  LET combs == fl_all_combinations(nf)
      line(features) ==
        LET body(st, ex) ==
              [result |-> de_or_assign(st.result, dg_bitstring(features[ex] + 1, nsys)),
               i |-> st.i \o <<"+", "f">> \o to_string(features[ex] + 1)]
            st == Iterate(body, [result |-> dg_bitstring(features[1] + 1, nsys),
                                 i |-> <<"f">> \o to_string(features[1] + 1)],
                          2, Len(features) + 1)
        IN st.i \o <<"\t">> \o de_text(st.result)
  IN [qi \in 1 .. Len(combs) |-> line(combs[qi])]

\* the lines print_and_not_features writes: !f<a>*!f<b>... TAB <bitstring>
print_and_not_features(nf, nsys) ==
  LET combs == fl_all_combinations(nf)
      line(features) ==
        LET body(st, ex) ==
              [result |-> de_and_assign(st.result,
                                        de_not(dg_bitstring(features[ex] + 1, nsys))),
               i |-> st.i \o <<"*", "!", "f">> \o to_string(features[ex] + 1)]
            st == Iterate(body, [result |-> de_not(dg_bitstring(features[1] + 1, nsys)),
                                 i |-> <<"!", "f">> \o to_string(features[1] + 1)],
                          2, Len(features) + 1)
        IN st.i \o <<"\t">> \o de_text(st.result)
  IN [qi \in 1 .. Len(combs) |-> line(combs[qi])]

\* the lines print_or_not_features writes: !f<a>+!f<b>... TAB <bitstring>
print_or_not_features(nf, nsys) ==
  LET combs == fl_all_combinations(nf)
      line(features) ==
        LET body(st, ex) ==
              [result |-> de_or_assign(st.result,
                                       de_not(dg_bitstring(features[ex] + 1, nsys))),
               i |-> st.i \o <<"+", "!", "f">> \o to_string(features[ex] + 1)]
            st == Iterate(body, [result |-> de_not(dg_bitstring(features[1] + 1, nsys)),
                                 i |-> <<"!", "f">> \o to_string(features[1] + 1)],
                          2, Len(features) + 1)
        IN st.i \o <<"\t">> \o de_text(st.result)
  IN [qi \in 1 .. Len(combs) |-> line(combs[qi])]

(***************************************************************************)
(* The state.  One run takes a number of independent features n_ and a     *)
(* model m_ and builds, for this input, a feature_location_differences_t   *)
(* (which is a feature_location_isolation_t) and a                         *)
(* feature_location_calculation_t, then runs the generator of fl.cpp for   *)
(* the same number of features.  The base class feature_location_t is a    *)
(* function of (n_, m_) alone, so its fields are held once, in loc.        *)
(***************************************************************************)
VARIABLES
  pc,    \* the position of the run
  n_,    \* constructor argument: the number of independent features
  m_,    \* constructor argument: the model id
  loc,   \* the fields of feature_location_t
  iso,   \* the fields of feature_location_isolation_t
  dif,   \* feature_location_differences_t: the loop of the exhaustive search
  calc,  \* the fields of feature_location_calculation_t
  flout, \* fl.cpp: the lines written for the independent features
  cmb,   \* a combination_t object and the caller's loop over it
  flrest, \* fl.cpp: the lines of the other files, and of the alternative build
  os,    \* the stream print_results wrote to last, and its lines
  dgc,   \* fl.cpp: the last call of the difference_expression_generator
  ar     \* the last call of a combinatorics function, and its result

vars == <<pc, n_, m_, loc, iso, dif, calc, flout, cmb, flrest, os, dgc, ar>>

NoLoc == [m_n |-> 0, m_F |-> 0, m_M |-> 0, m_S |-> WZero, m_O |-> 0, m_A |-> 0,
          m_N |-> 0, m_ON |-> 0, m_AN |-> 0, m_I |-> 0, m_T |-> 0, m_D |-> WZero,
          m_raw_independent_features |-> <<>>, m_raw_dependent_features |-> <<>>,
          m_all_systems |-> <<>>]

NoIso == [m_independent_features |-> <<>>, m_or_features |-> <<>>,
          m_and_features |-> <<>>, m_not_features |-> <<>>,
          m_or_not_features |-> <<>>, m_and_not_features |-> <<>>,
          m_all_features |-> <<>>, m_feature_isolations |-> <<>>]

NoDiff == [intersections |-> {}, unions |-> {}]

\* ran: the search was run for this input; e, result, diff, res: the local
\* variables of generate_non_empty_differences; thrown: the length_error
NoDif == [ran |-> FALSE, e |-> WZero, result |-> <<>>, diff |-> NoDiff, res |-> {},
          thrown |-> FALSE, m_non_empty_differences |-> <<>>]

NoCalc == [m_systems_bitmask |-> WZero, m_independent_features |-> <<>>,
           m_or_features |-> <<>>, m_and_features |-> <<>>, m_not_features |-> <<>>,
           m_or_not_features |-> <<>>, m_and_not_features |-> <<>>,
           m_all_features |-> <<>>, m_differences |-> <<>>]

\* impl: the file whose combination_t it is; n, k: the constructor arguments
\* (n is symbols.size() in features.hpp); thrown: the exception of the
\* constructor; ret: what the last call of next() returned; seq: the values of
\* operator()() the caller collected; extra: calls of next() after a false
NoComb == [impl |-> "none", n |-> 0, k |-> 0, m_state |-> <<>>, thrown |-> "none",
           ret |-> "none", seq |-> <<>>, extra |-> 0]

\* op: the operator called, "f" for operator()(f) and "fs" for operator()(f, s);
\* f, s: its arguments; thrown: the exception it threw; value: what it
\* returned, the bitstring or the one bit
NoCall == [op |-> "none", f |-> 0, s |-> 0, thrown |-> "none", value |-> <<>>]

\* fn: the function called; n, k: its arguments; result: the word returned
NoArith == [fn |-> "none", n |-> 0, k |-> 0, result |-> WZero]

\* by: the class whose print_results() wrote last; lines: what it wrote
NoStream == [by |-> "none", lines |-> <<>>]

\* the lines of the files _N, _A, _O, _AN and _ON of fl.cpp, and of the file
\* _F as print_independent_features_alt writes it
NoRest == [N |-> <<>>, A |-> <<>>, O |-> <<>>, AN |-> <<>>, ON |-> <<>>, F_alt |-> <<>>]

\* the accessors of feature_location_t
S == WVal(loc.m_S)
D == loc.m_D

InitFor(maxf) ==
  /\ pc = "start"
  /\ n_ \in 1 .. maxf
  /\ m_ \in Models
  /\ loc = NoLoc
  /\ iso = NoIso
  /\ dif = NoDif
  /\ calc = NoCalc
  /\ flout = <<>>
  /\ cmb = NoComb
  /\ flrest = NoRest
  /\ os = NoStream
  /\ dgc = NoCall
  /\ ar = NoArith

Init == InitFor(MaxF)

InitWide == InitFor(MaxFWide)

\* the constructor arguments the types accept, valid or not: no independent
\* feature, and model ids around the documented range 1 .. 19
InitAny ==
  /\ pc = "start"
  /\ n_ \in 0 .. MaxF
  /\ m_ \in 0 .. MaxM
  /\ loc = NoLoc
  /\ iso = NoIso
  /\ dif = NoDif
  /\ calc = NoCalc
  /\ flout = <<>>
  /\ cmb = NoComb
  /\ flrest = NoRest
  /\ os = NoStream
  /\ dgc = NoCall
  /\ ar = NoArith

\* feature_location_t::feature_location_t(n_, m_)
Construct_feature_location ==
  /\ pc = "start"
  /\ LET soc == sum_of_combinations(n_, 2)
         raw == raw_dependent_features(n_)
     IN loc' = [m_n |-> n_, m_F |-> n_, m_M |-> m_,
                m_S |-> power2(n_),
                m_O |-> IF hasO(m_) THEN soc ELSE 0,
                m_A |-> IF hasA(m_) THEN soc ELSE 0,
                m_N |-> IF hasN(m_) THEN n_ ELSE 0,
                m_ON |-> IF hasON(m_) THEN soc ELSE 0,
                m_AN |-> IF hasAN(m_) THEN soc ELSE 0,
                m_I |-> (IF hasO(m_) THEN soc ELSE 0) + (IF hasA(m_) THEN soc ELSE 0)
                        + (IF hasN(m_) THEN n_ ELSE 0) + (IF hasAN(m_) THEN soc ELSE 0)
                        + (IF hasON(m_) THEN soc ELSE 0),
                m_T |-> n_ + (IF hasO(m_) THEN soc ELSE 0) + (IF hasA(m_) THEN soc ELSE 0)
                        + (IF hasN(m_) THEN n_ ELSE 0) + (IF hasAN(m_) THEN soc ELSE 0)
                        + (IF hasON(m_) THEN soc ELSE 0),
                m_D |-> power2(WVal(power2(n_))),
                m_raw_independent_features |-> raw_independent_features(n_),
                m_raw_dependent_features |-> raw,
                m_all_systems |-> generate_all_systems(m_, n_, raw, WVal(power2(n_)))]
  /\ pc' = "located"
  /\ UNCHANGED <<n_, m_, iso, dif, calc, flout, cmb, flrest, os, dgc, ar>>

\* feature_location_isolation_t::feature_location_isolation_t(n_, m_)
Construct_isolation ==
  /\ pc = "located"
  /\ LET fi == iso_independent_features(loc.m_n)
         fo == iso_or_features(loc.m_M, loc.m_n)
         fa == iso_and_features(loc.m_M, loc.m_n)
         fn == iso_not_features(loc.m_M, loc.m_n)
         fon == iso_or_not_features(loc.m_M, loc.m_n, loc.m_N)
         fan == iso_and_not_features(loc.m_M, loc.m_n, loc.m_N)
         allf == sort(fi \o fo \o fa \o fn \o fon \o fan)
     IN iso' = [m_independent_features |-> fi, m_or_features |-> fo,
                m_and_features |-> fa, m_not_features |-> fn,
                m_or_not_features |-> fon, m_and_not_features |-> fan,
                m_all_features |-> allf,
                m_feature_isolations |-> generate_feature_isolations(allf, loc.m_all_systems)]
  /\ pc' = "isolated"
  /\ UNCHANGED <<n_, m_, loc, dif, calc, flout, cmb, flrest, os, dgc, ar>>

\* the loop of generate_non_empty_differences visits more than MaxIds IDs
TooManyIds == WLess(WOf(MaxIds + 1), D)

\* feature_location_differences_t's constructor enters
\* generate_non_empty_differences(): result { }, e { 1 }
BeginSearch ==
  /\ pc = "isolated"
  /\ ~TooManyIds
  /\ dif' = [NoDif EXCEPT !.ran = TRUE, !.e = WOne]
  /\ pc' = "searching"
  /\ UNCHANGED <<n_, m_, loc, iso, calc, flout, cmb, flrest, os, dgc, ar>>

\* the search is left out for an input whose loop is longer than MaxIds
SkipSearch ==
  /\ pc = "isolated"
  /\ TooManyIds
  /\ pc' = "searched"
  /\ UNCHANGED <<n_, m_, loc, iso, dif, calc, flout, cmb, flrest, os, dgc, ar>>

\* one pass of the loop body for the difference ID e, and ++e
SearchStep ==
  /\ pc = "searching"
  /\ WLess(dif.e, D)
  /\ LET diff == generate_difference(dif.e, S)
         res == evaluate_difference(diff, loc.m_all_systems)
     IN IF Cardinality(res) > 0
        THEN IF Cardinality(res) # 1
             THEN /\ dif' = [dif EXCEPT !.diff = diff, !.res = res, !.thrown = TRUE]
                  /\ pc' = "failed"
             ELSE /\ dif' = [dif EXCEPT
                               !.diff = diff, !.res = res, !.e = WInc(@),
                               !.result = Append(@, [difference_id |-> dif.e,
                                                     feature |-> CHOOSE fname \in res : TRUE,
                                                     difference |-> diff])]
                  /\ pc' = "searching"
        ELSE /\ dif' = [dif EXCEPT !.diff = diff, !.res = res, !.e = WInc(@)]
             /\ pc' = "searching"
  /\ UNCHANGED <<n_, m_, loc, iso, calc, flout, cmb, flrest, os, dgc, ar>>

\* feature_location_differences_t's constructor enters
\* generate_non_empty_differences() whatever the number of IDs is; the loop is
\* then run ChunkIds passes at a time
BeginLongSearch ==
  /\ pc = "isolated"
  /\ dif' = [NoDif EXCEPT !.ran = TRUE, !.e = WOne]
  /\ pc' = "searching"
  /\ UNCHANGED <<n_, m_, loc, iso, calc, flout, cmb, flrest, os, dgc, ar>>

\* the passes of the loop body for the difference IDs from .. to - 1 whose
\* difference evaluates to a non-empty set res: a pass reads nothing an
\* earlier pass wrote but result, so these IDs are found first
SearchHits(from, to) ==
  UNION {{[id |-> ev, res |-> res] :
            res \in {evaluate_difference(generate_difference(WOf(ev), S),
                                         loc.m_all_systems)} \ {{}}} :
         ev \in from .. to - 1}

\* the passes for the IDs from .. to - 1, applied to the loop's variables st:
\* result is extended by the hits in ascending order of their ID, up to the
\* first one whose set has not exactly one element, where the loop throws;
\* the locals diff and res are kept only at the throw
SearchPasses(st, hits, to) ==
  LET bad == {hit.id : hit \in {other \in hits : Cardinality(other.res) # 1}}
      stop == IF bad = {} THEN to ELSE SetMin(bad)
      kept == {hit \in hits : hit.id < stop}
      pushed == [ri \in 1 .. Cardinality(kept) |->
                  LET hit == CHOOSE one \in kept :
                               Cardinality({other \in kept : other.id < one.id}) = ri - 1
                  IN [difference_id |-> WOf(hit.id),
                      feature |-> CHOOSE fname \in hit.res : TRUE,
                      difference |-> generate_difference(WOf(hit.id), S)]]
  IN IF bad = {}
     THEN [st EXCEPT !.e = WOf(to), !.result = @ \o pushed]
     ELSE [st EXCEPT !.e = WOf(stop), !.result = @ \o pushed, !.thrown = TRUE,
                     !.diff = generate_difference(WOf(stop), S),
                     !.res = (CHOOSE hit \in hits : hit.id = stop).res]

\* up to ChunkIds passes of the loop body, from the difference ID e on
SearchChunk ==
  /\ pc = "searching"
  /\ WLess(dif.e, D)
  /\ \E from \in {WVal(dif.e)} :
     \E to \in {IF WLess(WOf(from + ChunkIds), D) THEN from + ChunkIds ELSE WVal(D)} :
     \E hits \in {SearchHits(from, to)} :
     \E after \in {SearchPasses(dif, hits, to)} :
       /\ dif' = after
       /\ pc' = IF after.thrown THEN "failed" ELSE "searching"
  /\ UNCHANGED <<n_, m_, loc, iso, calc, flout, cmb, flrest, os, dgc, ar>>

\* the loop ends: m_non_empty_differences = the result
EndSearch ==
  /\ pc = "searching"
  /\ ~WLess(dif.e, D)
  /\ dif' = [dif EXCEPT !.m_non_empty_differences = dif.result]
  /\ pc' = "searched"
  /\ UNCHANGED <<n_, m_, loc, iso, calc, flout, cmb, flrest, os, dgc, ar>>

\* std::vector::at throws when an or-not or and-not value is asked of a model
\* without not-features
AtThrows(m, nn) == (hasON(m) \/ hasAN(m)) /\ ~hasN(m) /\ nn >= 2

\* feature_location_calculation_t::feature_location_calculation_t(n_, m_)
Construct_calculation ==
  /\ pc = "searched"
  /\ IF AtThrows(loc.m_M, loc.m_n)
     THEN pc' = "failed" /\ calc' = calc
     ELSE
       /\ LET bm == initialize_bitmask(S)
              idf == calculate_independent_features(loc.m_n)
              fo == calculate_or_features(loc.m_M, loc.m_n, idf)
              fa == calculate_and_features(loc.m_M, loc.m_n, idf)
              nf == calculate_not_features(loc.m_M, idf, bm)
              fon == calculate_or_not_features(loc.m_M, loc.m_n, nf)
              fan == calculate_and_not_features(loc.m_M, loc.m_n, nf, bm)
              allf == idf \o fo \o fa \o nf \o fon \o fan
          IN calc' = [m_systems_bitmask |-> bm, m_independent_features |-> idf,
                      m_or_features |-> fo, m_and_features |-> fa,
                      m_not_features |-> nf, m_or_not_features |-> fon,
                      m_and_not_features |-> fan, m_all_features |-> allf,
                      m_differences |-> calculate_differences(allf, S)]
       /\ pc' = "calculated"
  /\ UNCHANGED <<n_, m_, loc, iso, dif, flout, cmb, flrest, os, dgc, ar>>

\* feature_location_differences_t::print_results(os), called once the search
\* has been run
differences_print_results ==
  /\ pc = "searched"
  /\ dif.ran
  /\ os.by = "none"
  /\ os' = [by |-> "differences", lines |-> print_results(dif.m_non_empty_differences)]
  /\ UNCHANGED <<pc, n_, m_, loc, iso, dif, calc, flout, cmb, flrest, dgc, ar>>

\* feature_location_calculation_t::print_results(os)
calculation_print_results ==
  /\ pc = "calculated"
  /\ os.by # "calculation"
  /\ os' = [by |-> "calculation", lines |-> print_results(calc.m_differences)]
  /\ UNCHANGED <<pc, n_, m_, loc, iso, dif, calc, flout, cmb, flrest, dgc, ar>>

\* fl.cpp main(): difference_expression_generator dg(F), with m_S = power(2, F),
\* and the six print functions, each writing the lines of its own file
fl_main ==
  /\ pc = "calculated"
  /\ flout' = print_independent_features(n_, WVal(power2(n_)))
  /\ flrest' = [flrest EXCEPT
                  !.N = print_not_features(n_, WVal(power2(n_))),
                  !.A = print_and_features(n_, WVal(power2(n_))),
                  !.O = print_or_features(n_, WVal(power2(n_))),
                  !.AN = print_and_not_features(n_, WVal(power2(n_))),
                  !.ON = print_or_not_features(n_, WVal(power2(n_)))]
  /\ pc' = "done"
  /\ UNCHANGED <<n_, m_, loc, iso, dif, calc, cmb, os, dgc, ar>>

\* main() built as its comment describes, with print_independent_features_alt
\* in place of print_independent_features, run for the same F: the lines of
\* its file for the independent features (the other five files are the same)
fl_main_alt ==
  /\ pc = "done"
  /\ flrest' = [flrest EXCEPT !.F_alt = print_independent_features_alt(n_, WVal(power2(n_)))]
  /\ pc' = "printed"
  /\ UNCHANGED <<n_, m_, loc, iso, dif, calc, flout, cmb, os, dgc, ar>>

Next ==
  \/ Construct_feature_location
  \/ Construct_isolation
  \/ BeginSearch
  \/ SkipSearch
  \/ SearchStep
  \/ EndSearch
  \/ differences_print_results
  \/ Construct_calculation
  \/ calculation_print_results
  \/ fl_main
  \/ fl_main_alt

Spec == Init /\ [][Next]_vars

\* the program with the exhaustive search run in full: for fewer than LongF
\* independent features with every model, for LongF with the models LongModels
InitLong ==
  /\ pc = "start"
  /\ \/ n_ \in 1 .. LongF - 1 /\ m_ \in Models
     \/ n_ = LongF /\ m_ \in LongModels
  /\ loc = NoLoc
  /\ iso = NoIso
  /\ dif = NoDif
  /\ calc = NoCalc
  /\ flout = <<>>
  /\ cmb = NoComb
  /\ flrest = NoRest
  /\ os = NoStream
  /\ dgc = NoCall
  /\ ar = NoArith

NextLong ==
  \/ Construct_feature_location
  \/ Construct_isolation
  \/ BeginLongSearch
  \/ SearchChunk
  \/ EndSearch
  \/ Construct_calculation

SpecLong == InitLong /\ [][NextLong]_vars

\* the same program for up to MaxFWide independent features
SpecWide == InitWide /\ [][Next]_vars

\* the same program for arguments outside the documented ranges as well
SpecAny == InitAny /\ [][Next]_vars

(***************************************************************************)
(* A combination_t object on its own, used as the constructors and the     *)
(* print functions use it: do { ... c() ... } while (c.next());            *)
(***************************************************************************)
InitComb ==
  /\ pc = "combination"
  /\ n_ = 0
  /\ m_ = 0
  /\ loc = NoLoc
  /\ iso = NoIso
  /\ dif = NoDif
  /\ calc = NoCalc
  /\ flout = <<>>
  /\ flrest = NoRest
  /\ os = NoStream
  /\ dgc = NoCall
  /\ ar = NoArith
  /\ cmb \in {[NoComb EXCEPT !.impl = im, !.n = cn, !.k = ck] :
               im \in {"features.hpp", "fl.cpp"}, cn \in 0 .. MaxN, ck \in 0 .. MaxN + 1}

\* a slip in the constructor: the test of k against symbols.size() is missing
Construct_combination_unchecked ==
  /\ pc = "combination"
  /\ cmb.impl = "features.hpp"
  /\ cmb' = [cmb EXCEPT !.m_state = combination_initialize(cmb.k)]
  /\ pc' = "collect"
  /\ UNCHANGED <<n_, m_, loc, iso, dif, calc, flout, flrest, os, dgc, ar>>

\* features.hpp: combination_t(symbols, k) with symbols = 1, ..., n
Construct_combination ==
  /\ pc = "combination"
  /\ cmb.impl = "features.hpp"
  /\ IF cmb.k > cmb.n
     THEN cmb' = [cmb EXCEPT !.thrown = "logic_error"] /\ pc' = "combination_failed"
     ELSE cmb' = [cmb EXCEPT !.m_state = combination_initialize(cmb.k)] /\ pc' = "collect"
  /\ UNCHANGED <<n_, m_, loc, iso, dif, calc, flout, flrest, os, dgc, ar>>

\* fl.cpp: combination_t(n, k), checking is true
fl_Construct_combination ==
  /\ pc = "combination"
  /\ cmb.impl = "fl.cpp"
  /\ IF cmb.k > cmb.n
     THEN cmb' = [cmb EXCEPT !.thrown = "domain_error"] /\ pc' = "combination_failed"
     ELSE IF cmb.n = 0
     THEN cmb' = [cmb EXCEPT !.thrown = "domain_error"] /\ pc' = "combination_failed"
     ELSE cmb' = [cmb EXCEPT !.m_state = fl_combination_initialize(cmb.k)] /\ pc' = "collect"
  /\ UNCHANGED <<n_, m_, loc, iso, dif, calc, flout, flrest, os, dgc, ar>>

\* operator()() of the object cmb
CombValue ==
  IF cmb.impl = "features.hpp"
  THEN combination_value(raw_independent_features(cmb.n), cmb.m_state)
  ELSE cmb.m_state

\* next() of the object cmb
CombNext ==
  IF cmb.impl = "features.hpp"
  THEN combination_next(cmb.m_state, cmb.n, cmb.k)
  ELSE fl_combination_next(cmb.m_state, cmb.n, cmb.k)

\* the loop body: the caller takes c()
combination_call ==
  /\ pc = "collect"
  /\ cmb' = [cmb EXCEPT !.seq = Append(@, CombValue)]
  /\ pc' = "advance"
  /\ UNCHANGED <<n_, m_, loc, iso, dif, calc, flout, flrest, os, dgc, ar>>

\* the loop condition: c.next()
combination_next_call ==
  /\ pc = "advance"
  /\ cmb' = [cmb EXCEPT !.m_state = CombNext.state, !.ret = CombNext.ret]
  /\ pc' = IF CombNext.ret THEN "collect" ELSE "exhausted"
  /\ UNCHANGED <<n_, m_, loc, iso, dif, calc, flout, flrest, os, dgc, ar>>

\* a caller that calls next() again after it has returned false
combination_next_again ==
  /\ pc = "exhausted"
  /\ cmb.extra < MaxExtra
  /\ cmb' = [cmb EXCEPT !.m_state = CombNext.state, !.ret = CombNext.ret,
                        !.extra = @ + 1]
  /\ pc' = IF CombNext.ret THEN "collect" ELSE "exhausted"
  /\ UNCHANGED <<n_, m_, loc, iso, dif, calc, flout, flrest, os, dgc, ar>>

NextComb ==
  \/ Construct_combination
  \/ fl_Construct_combination
  \/ combination_call
  \/ combination_next_call
  \/ combination_next_again

SpecComb == InitComb /\ [][NextComb]_vars

(***************************************************************************)
(* fl.cpp: calls of a difference_expression_generator dg(n_), with         *)
(* checking enabled, for arguments inside and outside the documented       *)
(* ranges.                                                                 *)
(***************************************************************************)
InitGen ==
  /\ pc = "generator"
  /\ n_ \in 1 .. MaxF
  /\ m_ = 0
  /\ loc = NoLoc
  /\ iso = NoIso
  /\ dif = NoDif
  /\ calc = NoCalc
  /\ flout = <<>>
  /\ cmb = NoComb
  /\ flrest = NoRest
  /\ os = NoStream
  /\ dgc = NoCall
  /\ ar = NoArith

\* dg(f): invalid_argument for f > F(), else the bitstring
generator_call_f ==
  /\ pc = "generator"
  /\ \E f \in 0 .. n_ + MaxBeyond :
       dgc' = IF f > n_
              THEN [op |-> "f", f |-> f, s |-> 0, thrown |-> "invalid_argument",
                    value |-> <<>>]
              ELSE [op |-> "f", f |-> f, s |-> 0, thrown |-> "none",
                    value |-> dg_bitstring(f, WVal(power2(n_)))]
  /\ UNCHANGED <<pc, n_, m_, loc, iso, dif, calc, flout, cmb, flrest, os, ar>>

\* dg(f, s): invalid_argument for f > F() and for s > S(), else the bit.  For
\* f = 0 the stride is 0 and ceil_div divides by it, which is undefined: the
\* call traps, or returns either bit
generator_call_fs ==
  /\ pc = "generator"
  /\ \E f \in 0 .. n_ + MaxBeyond : \E s \in 0 .. WVal(power2(n_)) + MaxBeyond :
       IF f > n_ \/ s > WVal(power2(n_))
       THEN dgc' = [op |-> "fs", f |-> f, s |-> s, thrown |-> "invalid_argument",
                    value |-> <<>>]
       ELSE IF dg_stride(f) = 0
       THEN \E outcome \in {<<>>, <<TRUE>>, <<FALSE>>} :
              dgc' = [op |-> "fs", f |-> f, s |-> s, thrown |-> "undefined",
                      value |-> outcome]
       ELSE dgc' = [op |-> "fs", f |-> f, s |-> s, thrown |-> "none",
                    value |-> <<dg_bit(f, s)>>]
  /\ UNCHANGED <<pc, n_, m_, loc, iso, dif, calc, flout, cmb, flrest, os, ar>>

NextGen ==
  \/ generator_call_f
  \/ generator_call_fs

SpecGen == InitGen /\ [][NextGen]_vars

(***************************************************************************)
(* Calls of combinations(n, k) and of sum_of_combinations(n, 2) for the    *)
(* arguments 0 <= k <= n <= MaxArg.                                        *)
(***************************************************************************)
InitArith ==
  /\ pc = "arithmetic"
  /\ n_ = 0
  /\ m_ = 0
  /\ loc = NoLoc
  /\ iso = NoIso
  /\ dif = NoDif
  /\ calc = NoCalc
  /\ flout = <<>>
  /\ cmb = NoComb
  /\ flrest = NoRest
  /\ os = NoStream
  /\ dgc = NoCall
  /\ \E nn \in 0 .. MaxArg : \E k \in 0 .. nn :
       ar = [fn |-> "none", n |-> nn, k |-> k, result |-> WZero]

\* combinations(n, k) for the arguments drawn
combinations_call ==
  /\ pc = "arithmetic"
  /\ ar.fn = "none"
  /\ ar' = [ar EXCEPT !.fn = "combinations", !.result = combinations_w(ar.n, ar.k)]
  /\ UNCHANGED <<pc, n_, m_, loc, iso, dif, calc, flout, cmb, flrest, os, dgc>>

\* sum_of_combinations(n, 2) for the n drawn, as generate_all_systems and
\* feature_location_t call it
sum_of_combinations_call ==
  /\ pc = "arithmetic"
  /\ ar.fn = "none"
  /\ ar.k = 0
  /\ ar' = [fn |-> "sum_of_combinations", n |-> ar.n, k |-> 2,
            result |-> sum_of_combinations_w(ar.n, 2)]
  /\ UNCHANGED <<pc, n_, m_, loc, iso, dif, calc, flout, cmb, flrest, os, dgc>>

NextArith ==
  \/ combinations_call
  \/ sum_of_combinations_call

SpecArith == InitArith /\ [][NextArith]_vars

(***************************************************************************)
(* Notions the properties are stated with.  They are defined from the      *)
(* meaning of the data, independently of the program's loops.              *)
(***************************************************************************)
Range(seq) == {seq[qi] : qi \in 1 .. Len(seq)}

Located ==
  pc \in {"located", "isolated", "searching", "searched", "calculated", "done", "printed",
         "failed"}
Isolated == pc \in {"isolated", "searching", "searched", "calculated", "done", "printed"}
Calculated == pc \in {"calculated", "done", "printed"}

\* the names S1 .. S<S> of all systems
SystemNames == {system_name(sk) : sk \in 1 .. S}

\* the features of the system with the 1-based index sk, as a set
FeatureSet(sk) == Range(loc.m_all_systems[sk])

\* the 1-based index of the system called sname
SysIndex(sname) == CHOOSE sk \in 1 .. S : system_name(sk) = sname

\* (intersection of the feature sets of the systems in diff.intersections)
\* minus (union of the feature sets of the systems in diff.unions)
SetEval(diff) ==
  IF diff.intersections = {} THEN {}
  ELSE {g \in FeatureSet(SysIndex(CHOOSE sname \in diff.intersections : TRUE)) :
          /\ \A sname \in diff.intersections : g \in FeatureSet(SysIndex(sname))
          /\ \A sname \in diff.unions : g \notin FeatureSet(SysIndex(sname))}

\* the split of the systems that the bit pattern of the word w encodes
SplitOf(w) == [intersections |-> {system_name(pb + 1) : pb \in {qb \in 0 .. S - 1 : qb \in w}},
               unions |-> {system_name(pb + 1) : pb \in {qb \in 0 .. S - 1 : qb \notin w}}]

\* a set of ids as the ascending vector of its elements
AscSeq(ids) ==
  [ri \in 1 .. Cardinality(ids) |->
     CHOOSE id \in ids : Cardinality({other \in ids : other < id}) = ri - 1]

\* the sets of at least two of the ids 1 .. nn
Composites(nn) == {c \in SUBSET (1 .. nn) : Cardinality(c) >= 2}

\* the binomial coefficient by Pascal's rule
RECURSIVE Binomial(_, _)
Binomial(bn, bk) ==
  IF bk = 0 \/ bk = bn THEN 1
  ELSE IF bk > bn THEN 0
  ELSE Binomial(bn - 1, bk - 1) + Binomial(bn - 1, bk)

\* the sum of Binomial(bn, bk) for bk = 2 .. bn
RECURSIVE BinomialSum(_, _)
BinomialSum(bn, bk) == IF bk > bn THEN 0 ELSE Binomial(bn, bk) + BinomialSum(bn, bk + 1)

\* the pairs (feature name, systems of the intersection part) of each strategy
IsolationPairs ==
  {<<fname, iso.m_feature_isolations[fname].intersections>> :
     fname \in DOMAIN iso.m_feature_isolations}
SearchPairs ==
  {<<d.feature, d.difference.intersections>> : d \in Range(dif.m_non_empty_differences)}
CalculationPairs ==
  {<<d.feature, d.difference.intersections>> : d \in Range(calc.m_differences)}

(***************************************************************************)
(* Properties.                                                             *)
(***************************************************************************)

\* C1: for every F in 1..6 and every model, the enumeration strategy, the
\* exhaustive ID-search and the closed-form strategy produce the same set of
\* (feature name, systems of the intersection part) pairs.
C1_StrategiesAgree ==
  (pc = "done" /\ dif.ran /\ n_ \in 1 .. 6)
    => (IsolationPairs = SearchPairs /\ SearchPairs = CalculationPairs)

\* C2: for every feature f, the difference that the enumeration strategy and
\* the closed-form strategy report for f evaluates, as (intersection of the
\* feature sets of its intersection part) minus (union of the feature sets of
\* its union part), to exactly {f}; both strategies report every feature.
C2_DifferenceIsolatesFeature ==
  Calculated =>
    /\ \A fname \in DOMAIN iso.m_feature_isolations :
         SetEval(iso.m_feature_isolations[fname]) = {fname}
    /\ \A d \in Range(calc.m_differences) : SetEval(d.difference) = {d.feature}
    /\ {d.feature : d \in Range(calc.m_differences)} = DOMAIN iso.m_feature_isolations
    /\ DOMAIN iso.m_feature_isolations = Range(iso.m_all_features)

C2_Witness ==
  /\ pc = "done" /\ n_ = 4 /\ m_ = 19
  /\ Cardinality(DOMAIN iso.m_feature_isolations) = loc.m_T
  /\ Len(calc.m_differences) = loc.m_T

Partitions(diff) ==
  /\ diff.intersections \cap diff.unions = {}
  /\ diff.intersections \cup diff.unions = SystemNames

C5_SearchAction ==
  /\ (pc = "isolated" /\ pc' = "searching") => (dif'.e = WOne /\ dif'.result = <<>>)
  /\ (pc = "searching" /\ pc' \in {"searching", "failed"}) =>
       LET r == SetEval(SplitOf(dif.e))
       IN /\ WLess(dif.e, D)
          /\ Cardinality(r) = 1 =>
               /\ pc' = "searching"
               /\ dif'.e = WInc(dif.e)
               /\ dif'.result = Append(dif.result,
                                       [difference_id |-> dif.e,
                                        feature |-> CHOOSE fname \in r : TRUE,
                                        difference |-> SplitOf(dif.e)])
          /\ Cardinality(r) = 0 =>
               /\ pc' = "searching"
               /\ dif'.e = WInc(dif.e)
               /\ dif'.result = dif.result
          /\ Cardinality(r) > 1 =>
               /\ pc' = "failed"
               /\ dif'.thrown
               /\ dif'.m_non_empty_differences = <<>>
  /\ (pc = "searching" /\ pc' = "searched") =>
       (dif.e = D /\ dif'.m_non_empty_differences = dif.result)

PresentIn(sid) == {fid \in 1 .. n_ : (sid \div Pow2(fid - 1)) % 2 = 1}

DefiningFeatures(sid) ==
  LET present == PresentIn(sid)
      absent == (1 .. n_) \ present
  IN {independent_feature_name(fid) : fid \in present}
     \cup (IF hasO(m_)
           THEN {or_feature_name(AscSeq(c)) : c \in {cc \in Composites(n_) : cc \cap present # {}}}
           ELSE {})
     \cup (IF hasA(m_)
           THEN {and_feature_name(AscSeq(c)) : c \in {cc \in Composites(n_) : cc \subseteq present}}
           ELSE {})
     \cup (IF hasN(m_) THEN {not_feature_name(fid) : fid \in absent} ELSE {})
     \cup (IF hasON(m_)
           THEN {or_not_feature_name(AscSeq(c)) : c \in {cc \in Composites(n_) : cc \cap absent # {}}}
           ELSE {})
     \cup (IF hasAN(m_)
           THEN {and_not_feature_name(AscSeq(c)) : c \in {cc \in Composites(n_) : cc \subseteq absent}}
           ELSE {})

C6_SystemFeatureSet ==
  Located =>
    /\ Len(loc.m_all_systems) = Pow2(n_)
    /\ \A sid \in 0 .. Pow2(n_) - 1 : FeatureSet(sid + 1) = DefiningFeatures(sid)

C6_Witness ==
  /\ pc = "located" /\ n_ = 3 /\ m_ = 19
  /\ and_feature_name(<<1, 3>>) \in FeatureSet(6)
  /\ or_not_feature_name(<<1, 3>>) \notin FeatureSet(6)
  /\ and_not_feature_name(<<1, 2, 3>>) \in FeatureSet(1)

\* C7: DF() = O() + A() + N() + ON() + AN() and T() = F() + DF(), where O, A,
\* ON and AN are the sum of the binomial coefficients C(F, k) for k = 2..F when
\* the model has the category and 0 otherwise, and N is F when the model has
\* not-features and 0 otherwise.
C7_Counts ==
  Located =>
    /\ loc.m_I = loc.m_O + loc.m_A + loc.m_N + loc.m_ON + loc.m_AN
    /\ loc.m_T = loc.m_F + loc.m_I
    /\ loc.m_F = n_
    /\ loc.m_O = (IF hasO(m_) THEN BinomialSum(n_, 2) ELSE 0)
    /\ loc.m_A = (IF hasA(m_) THEN BinomialSum(n_, 2) ELSE 0)
    /\ loc.m_ON = (IF hasON(m_) THEN BinomialSum(n_, 2) ELSE 0)
    /\ loc.m_AN = (IF hasAN(m_) THEN BinomialSum(n_, 2) ELSE 0)
    /\ loc.m_N = (IF hasN(m_) THEN n_ ELSE 0)

C7_Witness == pc = "located" /\ n_ = 6 /\ m_ = 19 /\ loc.m_T = 240 /\ loc.m_O = 57

\* C8: for every F in 1..6, S() = 2^F and D() = 2^S(), and the loop of the
\* exhaustive strategy over e in 1..D()-1 visits all 2^S - 1 non-zero IDs.
\* A power of two is the word whose only 1 bit is at the exponent's position.
C8_PowersOfTwo ==
  /\ (Located /\ n_ \in 1 .. 6) => (loc.m_S = {n_} /\ loc.m_D = {WVal(loc.m_S)})
  /\ (pc = "searched" /\ dif.ran /\ n_ \in 1 .. 6) => dif.e = {WVal(loc.m_S)}

\* C9 as stated: for F = 2 and model 8 there are 4 systems, the independent
\* features f1 and f2, the one or-feature "f1 + f2", the one and-feature
\* "f1 * f2", the two not-features "!f1" and "!f2", no or-not and no and-not
\* features, and T() is 5.
Scenario28 ==
  /\ S = 4
  /\ Len(loc.m_all_systems) = 4
  /\ iso.m_independent_features = << <<"f", "1">>, <<"f", "2">> >>
  /\ iso.m_or_features = << <<"f", "1", " ", "+", " ", "f", "2">> >>
  /\ iso.m_and_features = << <<"f", "1", " ", "*", " ", "f", "2">> >>
  /\ iso.m_not_features = << <<"!", "f", "1">>, <<"!", "f", "2">> >>
  /\ iso.m_or_not_features = <<>>
  /\ iso.m_and_not_features = <<>>

C9_Scenario28_Total5 ==
  (Isolated /\ n_ = 2 /\ m_ = 8) => (Scenario28 /\ loc.m_T = 5)

\* C9 amended: the same taxonomy, and T() is 6 (2 independent features, 1
\* or-feature, 1 and-feature, 2 not-features).
C9_Scenario28_Total6 ==
  (Isolated /\ n_ = 2 /\ m_ = 8) => (Scenario28 /\ loc.m_T = 6)

C9_Witness == pc = "isolated" /\ n_ = 2 /\ m_ = 8 /\ Len(iso.m_all_features) = 6

\* the bits of the closed-form value of the independent feature fid, read from
\* system 1 to system S, and the 1-based numbers of the systems whose bit is 1
ValueBits(fid) ==
  [sk \in 1 .. S |-> IF (sk - 1) \in calc.m_independent_features[fid].value
                     THEN "1" ELSE "0"]
BitstringBits(fid) ==
  [sk \in 1 .. S |-> IF dg_bitstring(fid, S)[sk] THEN "1" ELSE "0"]
IntersectedSystems(fid) ==
  {sk \in 1 .. S :
     \E d \in Range(calc.m_differences) :
       /\ d.feature = independent_feature_name(fid)
       /\ system_name(sk) \in d.difference.intersections}

\* C10 as stated: for F = 3 the closed-form bitstring of f2, read from system
\* 1 to system 8, is 01100110: the systems 2, 3, 6 and 7 are intersected.
C10_F2Bits_01100110 ==
  (Calculated /\ n_ = 3) =>
    /\ ValueBits(2) = <<"0", "1", "1", "0", "0", "1", "1", "0">>
    /\ BitstringBits(2) = <<"0", "1", "1", "0", "0", "1", "1", "0">>
    /\ IntersectedSystems(2) = {2, 3, 6, 7}

\* C10 amended: for F = 3 the closed-form bitstring of f2, read from system 1
\* to system 8, is 00110011: the systems 3, 4, 7 and 8 are intersected (the
\* bit positions 2, 3, 6 and 7), in features.hpp and in fl.cpp, whose line
\* for f2 is the bitstring written from system 8 down to system 1.
C10_F2Bits_00110011 ==
  (Calculated /\ n_ = 3) =>
    /\ ValueBits(2) = <<"0", "0", "1", "1", "0", "0", "1", "1">>
    /\ BitstringBits(2) = <<"0", "0", "1", "1", "0", "0", "1", "1">>
    /\ \A sk \in 1 .. 8 : dg_bit(2, sk) <=> sk \in {3, 4, 7, 8}
    /\ IntersectedSystems(2) = {3, 4, 7, 8}
    /\ calc.m_independent_features[2].value = {2, 3, 6, 7}
    /\ pc = "done" =>
         flout[2] = <<"f", "2", "\t", "1", "1", "0", "0", "1", "1", "0", "0">>

C10_Witness ==
  /\ pc = "done" /\ n_ = 3 /\ m_ = 1
  /\ Len(flout) = 3
  /\ calc.m_independent_features[2].name = <<"f", "2">>

\* the model id m activates none of the five categories
NoCategory(m) == ~hasO(m) /\ ~hasA(m) /\ ~hasN(m) /\ ~hasON(m) /\ ~hasAN(m)

\* C11 as stated: no model id in 1..19 has all five predicates hasO, hasA,
\* hasN, hasON and hasAN false, so no taxonomy is built without a category.
C11_NoModelWithoutCategory == Located => ~NoCategory(loc.m_M)

\* C11 amended: exactly one model id in 1..19, model 1, has all five
\* predicates false; its taxonomy has the independent features only (DF() = 0,
\* T() = F()), and every other model id activates at least one category (and
\* has dependent features as soon as F >= 2).
C11_OnlyModel1WithoutCategory ==
  Located =>
    /\ NoCategory(loc.m_M) <=> loc.m_M = 1
    /\ loc.m_M = 1 => (loc.m_I = 0 /\ loc.m_T = loc.m_F)
    /\ (loc.m_M # 1 /\ loc.m_F >= 2) => loc.m_I > 0

C11_Witness ==
  /\ pc = "isolated" /\ m_ = 1 /\ n_ = 3
  /\ NoCategory(loc.m_M)
  /\ iso.m_all_features = iso.m_independent_features
  /\ Len(iso.m_all_features) = 3

\* C12: for every model id in 1..19, hasON or hasAN implies hasN: N() = F()
\* whenever or-not or and-not names are generated, so the loops over the
\* sample sizes k <= N() of generate_or_not_features and
\* generate_and_not_features name every combination of 2..F identifiers.
C12_NotPrerequisite ==
  /\ Located =>
       ((hasON(loc.m_M) \/ hasAN(loc.m_M)) => (hasN(loc.m_M) /\ loc.m_N = loc.m_F))
  /\ Isolated =>
       /\ (iso.m_or_not_features # <<>> \/ iso.m_and_not_features # <<>>)
            => (loc.m_N = loc.m_F /\ Len(iso.m_not_features) = loc.m_F)
       /\ Len(iso.m_or_not_features) = loc.m_ON
       /\ Len(iso.m_and_not_features) = loc.m_AN
  /\ pc # "failed"

C12_Witness ==
  /\ pc = "isolated" /\ m_ = 9 /\ n_ = 3
  /\ hasON(loc.m_M) /\ ~hasAN(loc.m_M) /\ ~hasO(loc.m_M) /\ ~hasA(loc.m_M)
  /\ Len(iso.m_or_not_features) = 4
  /\ Len(iso.m_not_features) = 3

\* C13: constructing the taxonomy with F = 0, or with a model id outside
\* 1..19, fails with an error and produces no taxonomy: the run never gets
\* past a constructor.
C13_InvalidInputFails ==
  (n_ = 0 \/ m_ \notin 1 .. 19) => pc \in {"start", "failed"}

\* the index tuples the caller collected (features.hpp returns the symbols
\* 1 .. n, whose indices are one less)
CollectedTuples ==
  [qi \in 1 .. Len(cmb.seq) |->
     IF cmb.impl = "features.hpp"
     THEN [cj \in 1 .. Len(cmb.seq[qi]) |-> cmb.seq[qi][cj] - 1]
     ELSE cmb.seq[qi]]

\* lexicographic order of two tuples of the same length
LexLess(ta, tb) ==
  \E ci \in 1 .. Len(ta) : ta[ci] < tb[ci] /\ \A cj \in 1 .. ci - 1 : ta[cj] = tb[cj]

\* the k-element subsets of {0 .. n - 1}, each as its ascending tuple
SubsetTuples(cn, ck) ==
  {AscSeq(c) : c \in {cc \in SUBSET (0 .. cn - 1) : Cardinality(cc) = ck}}

\* C14: for n >= 1 and 1 <= k <= n a combination_t starts at the tuple
\* [0, ..., k-1]; the tuples obtained by calling next() until it returns
\* false are strictly increasing in lexicographic order and are every
\* k-element subset of {0..n-1} exactly once, so next() returns true exactly
\* C(n,k) - 1 times and then false.
C14_LexicographicEnumeration ==
  (pc \in {"collect", "advance", "exhausted"} /\ cmb.n >= 1 /\ cmb.k >= 1
     /\ cmb.k <= cmb.n /\ cmb.extra = 0) =>
    /\ (pc = "collect" /\ cmb.seq = <<>>) => cmb.m_state = [ci \in 1 .. cmb.k |-> ci - 1]
    /\ cmb.seq # <<>> => CollectedTuples[1] = [ci \in 1 .. cmb.k |-> ci - 1]
    /\ \A qi \in 1 .. Len(cmb.seq) - 1 :
         LexLess(CollectedTuples[qi], CollectedTuples[qi + 1])
    /\ Range(CollectedTuples) \subseteq SubsetTuples(cmb.n, cmb.k)
    /\ Len(cmb.seq) <= Binomial(cmb.n, cmb.k)
    /\ pc = "exhausted" =>
         /\ Range(CollectedTuples) = SubsetTuples(cmb.n, cmb.k)
         /\ Len(cmb.seq) = Binomial(cmb.n, cmb.k)
         /\ cmb.ret = FALSE

C14_Witness ==
  /\ pc = "exhausted" /\ cmb.impl = "fl.cpp" /\ cmb.n = 5 /\ cmb.k = 3
  /\ Len(cmb.seq) = 10
  /\ cmb.seq[2] = <<0, 1, 3>>
  /\ cmb.seq[10] = <<2, 3, 4>>

\* C15: constructing a combination_t with k > n fails with an exception at
\* construction time (std::logic_error in features.hpp, domain_error in
\* fl.cpp, where checking is enabled): the object gets no state, and nothing
\* is ever taken from it.
C15_TooLargeSampleThrows ==
  (cmb.impl # "none" /\ cmb.k > cmb.n) =>
    /\ pc \in {"combination", "combination_failed"}
    /\ cmb.m_state = <<>> /\ cmb.seq = <<>> /\ cmb.ret = "none"
    /\ pc = "combination_failed" =>
         cmb.thrown = (IF cmb.impl = "features.hpp" THEN "logic_error" ELSE "domain_error")

C15_Witness ==
  /\ pc = "combination_failed" /\ cmb.impl = "features.hpp"
  /\ cmb.n = 2 /\ cmb.k = 3
  /\ cmb.thrown = "logic_error"

\* the smallest integer that is at least a / b
CeilQuot(a, b) == CHOOSE c \in 0 .. a : c * b >= a /\ (c - 1) * b < a

\* the character a line of fl.cpp holds for the 1-based system sd: the
\* bitstring ends the line and is written from the last system to the first
LineBit(line, sd) == line[Len(line) - (sd - 1)]

\* C16: for every feature id f in 1..F and every system s in 1..2^F, the bit
\* at index s - 1 of the bitstring of operator()(f) (the one the line of f
\* is written from) equals operator()(f, s), which is !(ceil(s / 2^(f-1)) % 2).
C16_BitstringMatchesClosedForm ==
  pc \in {"done", "printed"} =>
    \A f \in 1 .. n_ : \A sd \in 1 .. Pow2(n_) :
      /\ dg_bitstring(f, Pow2(n_))[sd] <=> dg_bit(f, sd)
      /\ (LineBit(flout[f], sd) = "1") <=> dg_bit(f, sd)
      /\ dg_bit(f, sd) <=> (CeilQuot(sd, Pow2(f - 1)) % 2 = 0)

C16_Witness ==
  /\ pc = "done" /\ n_ = 6 /\ m_ = 1
  /\ Len(flout) = 6
  /\ Len(flout[6]) = 3 + 64
  /\ LineBit(flout[6], 33) = "1" /\ LineBit(flout[6], 32) = "0"

\* C17: for F in 1..5 and every model, every value the closed-form strategy
\* computes, in each of the six categories, has no bit set at a position >= S:
\* the complements of the not-features are confined to the low S bits.
C17_ValuesWithinSystems ==
  (Calculated /\ n_ \in 1 .. 5) =>
    /\ \A fx \in Range(calc.m_independent_features) \cup Range(calc.m_or_features)
                 \cup Range(calc.m_and_features) \cup Range(calc.m_not_features)
                 \cup Range(calc.m_or_not_features) \cup Range(calc.m_and_not_features) :
         fx.value \subseteq 0 .. S - 1
    /\ \A fx \in Range(calc.m_all_features) : fx.value \subseteq 0 .. S - 1
    /\ calc.m_systems_bitmask = BitPos \ (0 .. S - 1)

C17_Witness ==
  /\ pc = "calculated" /\ n_ = 5 /\ m_ = 19
  /\ calc.m_systems_bitmask = 32 .. 63
  /\ calc.m_not_features[1].value = {qb \in 0 .. 31 : qb % 2 = 0}
  /\ Len(calc.m_and_not_features) = 26

\* the largest number of low bits, and the largest vector<bool> length, over
\* which C18 enumerates every value
MaxInvBits == 8
MaxDeLen == 4

\* the not-feature transform of calculate_not_features() applied to one value
NotTransform(v, bitmask) ==
  calculate_not_features(19, <<[name |-> <<>>, value |-> v]>>, bitmask)[1].value

BoolSeqs(len) == [1 .. len -> BOOLEAN]

\* C18: complementation is involutive. ~(v ^ systems_bitmask) applied twice
\* returns v, for every value v whose bits lie below S (every such v over the
\* low MaxInvBits bits, and every independent value the calculation holds,
\* whose not-feature value transformed once more is the independent value);
\* operator~ of fl.cpp applied twice returns the original vector<bool>, for
\* every vector of up to MaxDeLen elements and for every dg(f) bitstring.
C18_ComplementInvolutive ==
  /\ Calculated =>
       /\ \A v \in SUBSET (0 .. (IF S < MaxInvBits THEN S ELSE MaxInvBits) - 1) :
            NotTransform(NotTransform(v, calc.m_systems_bitmask),
                         calc.m_systems_bitmask) = v
       /\ \A qi \in 1 .. Len(calc.m_independent_features) :
            LET v == calc.m_independent_features[qi].value
            IN NotTransform(NotTransform(v, calc.m_systems_bitmask),
                            calc.m_systems_bitmask) = v
       /\ \A qi \in 1 .. Len(calc.m_not_features) :
            NotTransform(calc.m_not_features[qi].value, calc.m_systems_bitmask)
              = calc.m_independent_features[qi].value
  /\ \A len \in 0 .. MaxDeLen : \A de \in BoolSeqs(len) : de_not(de_not(de)) = de
  /\ pc \in {"done", "printed"} =>
       \A f \in 1 .. n_ :
         /\ de_not(de_not(dg_bitstring(f, S))) = dg_bitstring(f, S)
         /\ flrest.N[f] = <<"!">> \o SubSeq(flout[f], 1, Len(flout[f]) - S)
                            \o de_text(de_not(dg_bitstring(f, S)))
         /\ flout[f] = SubSeq(flrest.N[f], 2, Len(flrest.N[f]) - S)
                         \o de_text(de_not(de_not(dg_bitstring(f, S))))

C18_Witness ==
  /\ pc = "done" /\ n_ = 3 /\ m_ = 19
  /\ calc.m_independent_features[1].value = {1, 3, 5, 7}
  /\ calc.m_not_features[1].value = {0, 2, 4, 6}
  /\ NotTransform({0, 2, 4, 6}, calc.m_systems_bitmask) = {1, 3, 5, 7}
  /\ flout[1] = <<"f", "1", "\t", "1", "0", "1", "0", "1", "0", "1", "0">>
  /\ flrest.N[1] = <<"!", "f", "1", "\t", "0", "1", "0", "1", "0", "1", "0", "1">>

\* a name of features.hpp without the separators around its operators, which
\* leaves the operand identifiers and the operators between them
Unspaced(name) == SelectSeq(name, LAMBDA ch : ch # " ")

\* the two parts of a line of fl.cpp, before and after the tab
TabPos(line) == CHOOSE qi \in 1 .. Len(line) : line[qi] = "\t"
LineName(line) == SubSeq(line, 1, TabPos(line) - 1)
LineBits(line) == SubSeq(line, TabPos(line) + 1, Len(line))

\* the lines of fl.cpp and the features of the closed-form strategy of one
\* category are the same features with the same bits
SameFeatures(lines, features) ==
  /\ Len(lines) = Len(features)
  /\ {LineName(lines[qi]) : qi \in 1 .. Len(lines)}
       = {Unspaced(features[qi].name) : qi \in 1 .. Len(features)}
  /\ Cardinality({LineName(lines[qi]) : qi \in 1 .. Len(lines)}) = Len(lines)
  /\ \A qi \in 1 .. Len(lines) : \A qj \in 1 .. Len(features) :
       LineName(lines[qi]) = Unspaced(features[qj].name) =>
         /\ Len(LineBits(lines[qi])) = S
         /\ \A p \in 0 .. S - 1 :
              (LineBit(lines[qi], p + 1) = "1") <=> (p \in features[qj].value)
         /\ features[qj].value \subseteq 0 .. S - 1

\* C19: for F in 1..5 the bitstrings fl.cpp writes for the independent, not,
\* and, or, and-not and or-not features agree with model 19 of features.hpp:
\* both produce the same features, and for the same operands the bit at index
\* p of the fl.cpp bitstring is bit p of the closed-form value.
C19_FlAgreesWithModel19 ==
  (pc \in {"done", "printed"} /\ m_ = 19 /\ n_ \in 1 .. 5) =>
    /\ SameFeatures(flout, calc.m_independent_features)
    /\ SameFeatures(flrest.N, calc.m_not_features)
    /\ SameFeatures(flrest.A, calc.m_and_features)
    /\ SameFeatures(flrest.O, calc.m_or_features)
    /\ SameFeatures(flrest.AN, calc.m_and_not_features)
    /\ SameFeatures(flrest.ON, calc.m_or_not_features)

C19_Witness ==
  /\ pc = "done" /\ m_ = 19 /\ n_ = 5
  /\ Len(flrest.ON) = 26 /\ Len(calc.m_or_not_features) = 26
  /\ \E qi \in 1 .. 26 : \E qj \in 1 .. 26 :
       /\ LineName(flrest.AN[qi]) = <<"!", "f", "1", "*", "!", "f", "2">>
       /\ calc.m_and_not_features[qj].name
            = <<"!", "f", "1", " ", "*", " ", "!", "f", "2">>
       /\ calc.m_and_not_features[qj].value = {qb \in 0 .. 31 : qb % 4 = 0}
       /\ LineBit(flrest.AN[qi], 1) = "1" /\ LineBit(flrest.AN[qi], 2) = "0"

\* C20: every line print_independent_features and print_independent_features_alt
\* write for an independent feature f is f<f> TAB <bitstring> with exactly
\* S = 2^F characters 0 or 1, system S leftmost and system 1 rightmost, and the
\* two functions write identical lines.
C20_AltWritesSameLines ==
  pc = "printed" =>
    /\ Len(flout) = n_ /\ Len(flrest.F_alt) = n_
    /\ \A f \in 1 .. n_ :
         /\ LineName(flout[f]) = <<"f">> \o to_string(f)
         /\ Len(LineBits(flout[f])) = S
         /\ \A sd \in 1 .. S : (LineBit(flout[f], sd) = "1") <=> dg_bit(f, sd)
         /\ LineName(flrest.F_alt[f]) = <<"f">> \o to_string(f)
         /\ Len(LineBits(flrest.F_alt[f])) = S
         /\ flrest.F_alt[f] = flout[f]

\* the state in which the two functions have written different lines: the line
\* of print_independent_features_alt lacks the character of system 1
C20_Witness ==
  /\ pc = "printed" /\ n_ = 2
  /\ flout[1] = <<"f", "1", "\t", "1", "0", "1", "0">>
  /\ flrest.F_alt[1] = <<"f", "1", "\t", "1", "0", "1">>
  /\ \A f \in 1 .. n_ : flrest.F_alt[f] = SubSeq(flout[f], 1, Len(flout[f]) - 1)

\* the decimal digits of twice the number ds plus bit; ds holds the digits of
\* a natural number of any size, the lowest first
DecDouble(ds, bit) ==
  LET body(st, di) == [out |-> Append(st.out, (2 * ds[di] + st.carry) % 10),
                       carry |-> (2 * ds[di] + st.carry) \div 10]
      r == Iterate(body, [out |-> <<>>, carry |-> bit], 1, Len(ds) + 1)
  IN IF r.carry > 0 THEN Append(r.out, r.carry) ELSE r.out

\* the decimal numeral of the 64-bit value w
WDecimal(w) ==
  LET body(ds, bi) == DecDouble(ds, IF (WordBits - 1 - bi) \in w THEN 1 ELSE 0)
      low == Iterate(body, <<>>, 0, WordBits)
  IN IF low = <<>> THEN <<"0">>
     ELSE [di \in 1 .. Len(low) |-> Digits[low[Len(low) + 1 - di] + 1]]

\* the label of a line of print_results: the text before its first separator
Label(line) == SubSeq(line, 1, SetMin({qi \in 1 .. Len(line) : line[qi] = "\t"}) - 1)

\* the collection the stream was printed from
Printed ==
  IF os.by = "differences" THEN dif.m_non_empty_differences ELSE calc.m_differences

\* C21: for F in 1..5 and every model, the label print_results of the
\* exhaustive and of the closed-form strategy prints for a difference is E
\* followed by the decimal value of its difference_id, so differences with
\* distinct IDs are printed with distinct labels.
C21_LabelIsDecimalId ==
  (os.by # "none" /\ n_ \in 1 .. 5) =>
    /\ Len(os.lines) = Len(Printed)
    /\ \A qi \in 1 .. Len(Printed) :
         Label(os.lines[qi]) = difference_expression \o WDecimal(Printed[qi].difference_id)
    /\ \A qi, qj \in 1 .. Len(Printed) :
         Printed[qi].difference_id # Printed[qj].difference_id
           => Label(os.lines[qi]) # Label(os.lines[qj])

\* the closed-form strategy for F = 5 has printed two differences with
\* different IDs, both multiples of 2^16, under the same label E0
C21_Witness ==
  /\ pc = "calculated" /\ n_ = 5 /\ m_ = 19 /\ os.by = "calculation"
  /\ \E qi, qj \in 1 .. Len(calc.m_differences) :
       /\ calc.m_differences[qi].difference_id = 16 .. 31
       /\ calc.m_differences[qi].feature = <<"f", "5">>
       /\ WDecimal(calc.m_differences[qi].difference_id)
            = <<"4", "2", "9", "4", "9", "0", "1", "7", "6", "0">>
       /\ calc.m_differences[qj].difference_id # calc.m_differences[qi].difference_id
       /\ Label(os.lines[qi]) = <<"E", "0">>
       /\ Label(os.lines[qj]) = <<"E", "0">>

\* for F up to 4 every ID is below 2^16 and the labels are the IDs
C21_LabelsUpToFour ==
  (os.by # "none" /\ n_ \in 1 .. 4) =>
    /\ Len(os.lines) = Len(Printed)
    /\ \A qi \in 1 .. Len(Printed) :
         Label(os.lines[qi]) = difference_expression \o WDecimal(Printed[qi].difference_id)

\* C22: for every F and model for which the search is run, the sequence the
\* exhaustive strategy returns (non_empty_differences) and the sequence the
\* closed-form strategy returns (differences) are equal element by element:
\* same length, same order, and at each position the same difference ID, the
\* same feature name and the same intersection and union parts.
C22_SequencesEqual ==
  (Calculated /\ dif.ran /\ n_ \in 1 .. 4) =>
    /\ Len(dif.m_non_empty_differences) = Len(calc.m_differences)
    /\ \A qi \in 1 .. Len(calc.m_differences) :
         /\ dif.m_non_empty_differences[qi].difference_id = calc.m_differences[qi].difference_id
         /\ dif.m_non_empty_differences[qi].feature = calc.m_differences[qi].feature
         /\ dif.m_non_empty_differences[qi].difference.intersections
              = calc.m_differences[qi].difference.intersections
         /\ dif.m_non_empty_differences[qi].difference.unions
              = calc.m_differences[qi].difference.unions

C22_Witness ==
  /\ pc = "calculated" /\ n_ = 4 /\ m_ = 19 /\ dif.ran
  /\ Len(dif.m_non_empty_differences) = 52
  /\ Len(calc.m_differences) = 52
  /\ \E qi \in 1 .. 52 :
       /\ dif.m_non_empty_differences[qi].feature = <<"f", "1", " ", "*", " ", "f", "2">>
       /\ calc.m_differences[qi].difference_id = {3, 7, 11, 15}
       /\ dif.m_non_empty_differences[qi] = calc.m_differences[qi]

\* C23: for every F and model the search is run for, the exhaustive strategy
\* never raises its 'Set size ... must be 1' error (no difference ID evaluates
\* to more than one feature), and the number of differences it keeps is T():
\* every feature of the taxonomy is isolated by exactly one difference ID.
C23_SearchNeverThrowsAndFindsAll ==
  (n_ \in 1 .. 4) =>
    /\ ~dif.thrown
    /\ pc # "failed"
    /\ (pc \in {"searched", "calculated"} /\ dif.ran) =>
         /\ Len(dif.m_non_empty_differences) = loc.m_T
         /\ {dif.m_non_empty_differences[qi].feature :
               qi \in 1 .. Len(dif.m_non_empty_differences)} = Range(iso.m_all_features)
         /\ \A qi, qj \in 1 .. Len(dif.m_non_empty_differences) :
              qi # qj =>
                /\ dif.m_non_empty_differences[qi].feature
                     # dif.m_non_empty_differences[qj].feature
                /\ dif.m_non_empty_differences[qi].difference_id
                     # dif.m_non_empty_differences[qj].difference_id

C23_Witness ==
  /\ pc = "searched" /\ n_ = 4 /\ m_ = 19 /\ dif.ran /\ ~dif.thrown
  /\ dif.e = {16}
  /\ loc.m_T = 52
  /\ Len(dif.m_non_empty_differences) = 52
  /\ Cardinality(Range(iso.m_all_features)) = 52

\* C24: for F in 1..6 and every model, the name lists generated by
\* feature_location_isolation_t have the sizes |independent_features| = F(),
\* |or_features| = O(), |and_features| = A(), |not_features| = N(),
\* |or_not_features| = ON(), |and_not_features| = AN(); the names in
\* all_features() are pairwise distinct, so |all_features()| = T() and
\* feature_isolations() has exactly T() entries.
C24_IsolationListSizes ==
  (Isolated /\ n_ \in 1 .. 6) =>
    /\ Len(iso.m_independent_features) = loc.m_F
    /\ Len(iso.m_or_features) = loc.m_O
    /\ Len(iso.m_and_features) = loc.m_A
    /\ Len(iso.m_not_features) = loc.m_N
    /\ Len(iso.m_or_not_features) = loc.m_ON
    /\ Len(iso.m_and_not_features) = loc.m_AN
    /\ \A qi, qj \in 1 .. Len(iso.m_all_features) :
         qi # qj => iso.m_all_features[qi] # iso.m_all_features[qj]
    /\ Len(iso.m_all_features) = loc.m_T
    /\ Cardinality(DOMAIN iso.m_feature_isolations) = loc.m_T

C24_Witness ==
  /\ pc = "isolated" /\ n_ = 6 /\ m_ = 19
  /\ Len(iso.m_independent_features) = 6 /\ Len(iso.m_not_features) = 6
  /\ Len(iso.m_or_features) = 57 /\ Len(iso.m_and_not_features) = 57
  /\ Len(iso.m_all_features) = 240
  /\ Cardinality(DOMAIN iso.m_feature_isolations) = 240

\* a step in which next() of the object cmb is called
NextCalled ==
  \/ pc = "advance" /\ pc' # "advance"
  \/ pc = "exhausted" /\ cmb'.extra # cmb.extra

\* a step in which next() of the object cmb is called and returns false
NextReturnsFalse == NextCalled /\ cmb'.ret = FALSE

\* C25: when next() of a combination_t returns false (the state is the last
\* combination [n-k, ..., n-1], or k = 0), the state is left unchanged,
\* operator() still returns that last combination, and every later call of
\* next() returns false as well.
C25_ExhaustedStep ==
  /\ NextReturnsFalse =>
       /\ cmb'.m_state = cmb.m_state
       /\ cmb.m_state = [ci \in 1 .. cmb.k |-> cmb.n - cmb.k + ci - 1]
       /\ CombValue' = CombValue
       /\ cmb'.seq = cmb.seq
       /\ cmb.seq # <<>> /\ CombValue' = cmb.seq[Len(cmb.seq)]
       /\ pc' = "exhausted"
  /\ (pc = "exhausted" /\ NextCalled) => NextReturnsFalse

C25_ExhaustedIsStable == [][C25_ExhaustedStep]_vars

C25_Witness ==
  /\ pc = "exhausted" /\ cmb.impl = "features.hpp" /\ cmb.n = 5 /\ cmb.k = 3
  /\ cmb.extra = 2 /\ cmb.ret = FALSE
  /\ cmb.m_state = <<2, 3, 4>>
  /\ cmb.seq[Len(cmb.seq)] = <<3, 4, 5>>
  /\ CombValue = <<3, 4, 5>>

C25_WitnessEmpty ==
  /\ pc = "exhausted" /\ cmb.impl = "fl.cpp" /\ cmb.n = 3 /\ cmb.k = 0
  /\ cmb.extra = 1 /\ cmb.ret = FALSE /\ cmb.m_state = <<>> /\ cmb.seq = <<(<<>>)>>

\* C26: for F in 1..5 and every model, the list the closed-form strategy's
\* calculate_differences returns is in strictly ascending order of difference
\* ID; in particular no two features of the taxonomy share a difference ID.
C26_DifferencesAscending ==
  (Calculated /\ n_ \in 1 .. 5) =>
    /\ Len(calc.m_differences) = loc.m_T
    /\ \A qi \in 1 .. Len(calc.m_differences) - 1 :
         WLess(calc.m_differences[qi].difference_id,
               calc.m_differences[qi + 1].difference_id)
    /\ \A qi, qj \in 1 .. Len(calc.m_all_features) :
         qi # qj => calc.m_all_features[qi].value # calc.m_all_features[qj].value

C26_Witness ==
  /\ pc = "calculated" /\ n_ = 5 /\ m_ = 19
  /\ Len(calc.m_differences) = 114
  /\ calc.m_differences[1].difference_id = {0}
  /\ calc.m_differences[114].difference_id = 1 .. 31
  /\ calc.m_all_features[1].value = {qb \in 0 .. 31 : qb % 2 = 1}

\* C27: for F in 1..5, every model and every feature of the taxonomy, neither
\* part of its isolating difference expression is empty: at least one system
\* contains the feature and at least one does not, i.e. its closed-form
\* difference ID lies in 1 .. 2^S - 2.
C27_NoEmptyPart ==
  (n_ \in 1 .. 5) =>
    /\ Isolated =>
         /\ DOMAIN iso.m_feature_isolations = Range(iso.m_all_features)
         /\ \A fname \in DOMAIN iso.m_feature_isolations :
              /\ iso.m_feature_isolations[fname].intersections # {}
              /\ iso.m_feature_isolations[fname].unions # {}
    /\ Calculated =>
         /\ Len(calc.m_differences) = loc.m_T
         /\ \A qi \in 1 .. Len(calc.m_differences) :
              /\ calc.m_differences[qi].difference_id \subseteq 0 .. S - 1
              /\ calc.m_differences[qi].difference_id # WZero
              /\ calc.m_differences[qi].difference_id # 0 .. S - 1
              /\ calc.m_differences[qi].difference.intersections # {}
              /\ calc.m_differences[qi].difference.unions # {}

C27_Witness ==
  /\ pc = "calculated" /\ n_ = 5 /\ m_ = 19
  /\ Cardinality(iso.m_feature_isolations[or_feature_name(<<1, 2, 3, 4, 5>>)].unions) = 1
  /\ Cardinality(iso.m_feature_isolations[and_feature_name(<<1, 2, 3, 4, 5>>)].intersections) = 1
  /\ calc.m_differences[1].difference.intersections = {system_name(1)}
  /\ calc.m_differences[114].difference.unions = {system_name(1)}

\* the name of the dual of a feature built from negated operands: the
\* negations removed and the operators * and + exchanged
Dual(name) ==
  LET plain == SelectSeq(name, LAMBDA ch : ch # "!")
  IN [qi \in 1 .. Len(plain) |->
        IF plain[qi] = "*" THEN "+" ELSE IF plain[qi] = "+" THEN "*" ELSE plain[qi]]

\* the closed-form features neg are the duals of the features pos: the same
\* operands, and the value the complement of the value within the S low bits
DualValues(pos, neg) ==
  /\ Len(pos) = Len(neg) /\ Len(pos) >= 1
  /\ {Dual(neg[qj].name) : qj \in 1 .. Len(neg)} = {pos[qi].name : qi \in 1 .. Len(pos)}
  /\ \A qi \in 1 .. Len(pos) : \A qj \in 1 .. Len(neg) :
       Dual(neg[qj].name) = pos[qi].name => neg[qj].value = (0 .. S - 1) \ pos[qi].value

\* the same for the lines of two files of fl.cpp, bit by bit
DualLines(pos, neg) ==
  /\ Len(pos) = Len(neg) /\ Len(pos) >= 1
  /\ {Dual(LineName(neg[qj])) : qj \in 1 .. Len(neg)}
       = {LineName(pos[qi]) : qi \in 1 .. Len(pos)}
  /\ \A qi \in 1 .. Len(pos) : \A qj \in 1 .. Len(neg) :
       Dual(LineName(neg[qj])) = LineName(pos[qi]) =>
         /\ Len(LineBits(neg[qj])) = S /\ Len(LineBits(pos[qi])) = S
         /\ \A sd \in 1 .. S : (LineBit(neg[qj], sd) = "1") <=> (LineBit(pos[qi], sd) = "0")

\* C28: De Morgan duality.  For F in 2..5 and every combination of at least
\* two identifiers, the and-not value is the complement within the S low bits
\* of the or value of the same identifiers, and the or-not value that of the
\* and value; the same holds bit by bit for the bitstrings fl.cpp writes.
C28_DeMorgan ==
  (n_ \in 2 .. 5) =>
    /\ (Calculated /\ hasO(m_) /\ hasAN(m_)) =>
         DualValues(calc.m_or_features, calc.m_and_not_features)
    /\ (Calculated /\ hasA(m_) /\ hasON(m_)) =>
         DualValues(calc.m_and_features, calc.m_or_not_features)
    /\ pc \in {"done", "printed"} =>
         /\ DualLines(flrest.O, flrest.AN)
         /\ DualLines(flrest.A, flrest.ON)

C28_Witness ==
  /\ pc = "done" /\ n_ = 5 /\ m_ = 19
  /\ calc.m_or_features[1].name = <<"f", "1", " ", "+", " ", "f", "2">>
  /\ calc.m_or_features[1].value = {qb \in 0 .. 31 : qb % 4 # 0}
  /\ \E qj \in 1 .. 26 :
       /\ calc.m_and_not_features[qj].name = <<"!", "f", "1", " ", "*", " ", "!", "f", "2">>
       /\ calc.m_and_not_features[qj].value = {qb \in 0 .. 31 : qb % 4 = 0}
  /\ \E qi, qj \in 1 .. 26 :
       /\ LineName(flrest.A[qi]) = <<"f", "1", "*", "f", "2">>
       /\ LineName(flrest.ON[qj]) = <<"!", "f", "1", "+", "!", "f", "2">>
       /\ LineBit(flrest.A[qi], 4) = "1" /\ LineBit(flrest.ON[qj], 4) = "0"

\* C29: with checking enabled the generator rejects with invalid_argument
\* every feature id outside 1..F (for operator()(f) and operator()(f, s)) and
\* every system id outside 1..S (for operator()(f, s)), including f = 0 and
\* s = 0, and returns a value only for arguments inside those ranges.
C29_RejectsOutOfRange ==
  (pc = "generator" /\ dgc.op # "none") =>
    LET inside == /\ dgc.f \in 1 .. n_
                  /\ dgc.op = "fs" => dgc.s \in 1 .. WVal(power2(n_))
    IN /\ ~inside => (dgc.thrown = "invalid_argument" /\ dgc.value = <<>>)
       /\ inside => (dgc.thrown = "none" /\ dgc.value # <<>>)

\* dg(1, 0) has returned true for F = 2
C29_Witness ==
  /\ pc = "generator" /\ n_ = 2
  /\ dgc = [op |-> "fs", f |-> 1, s |-> 0, thrown |-> "none", value |-> <<TRUE>>]

\* dg(0) has returned an all-zero bitstring for F = 2
C29_WitnessFeatureZero ==
  /\ pc = "generator" /\ n_ = 2
  /\ dgc = [op |-> "f", f |-> 0, s |-> 0, thrown |-> "none",
            value |-> <<FALSE, FALSE, FALSE, FALSE>>]

\* the arguments above the ranges are rejected, and the arguments inside the
\* ranges are answered
C29_RejectsAboveRange ==
  (pc = "generator" /\ dgc.op # "none") =>
    /\ (dgc.f > n_ \/ dgc.s > WVal(power2(n_))) <=> dgc.thrown = "invalid_argument"
    /\ (dgc.f \in 1 .. n_ /\ (dgc.op = "fs" => dgc.s \in 1 .. WVal(power2(n_)))) =>
         (dgc.thrown = "none" /\ dgc.value # <<>>)

\* the decimal digits, the lowest first, of the number ds times the small
\* factor fm; ds holds the digits of a natural number of any size
DecTimes(ds, fm) ==
  LET body(st, di) == [out |-> Append(st.out, (fm * ds[di] + st.carry) % 10),
                       carry |-> (fm * ds[di] + st.carry) \div 10]
      r == Iterate(body, [out |-> <<>>, carry |-> 0], 1, Len(ds) + 1)
  IN IF r.carry = 0 THEN r.out
     ELSE IF r.carry < 10 THEN Append(r.out, r.carry)
     ELSE r.out \o <<r.carry % 10, r.carry \div 10>>

\* the decimal numeral of the product of the naturals from .. to, computed
\* without a bound on its size
ExactProduct(from, to) ==
  LET body(ds, pi) == DecTimes(ds, from + pi)
      low == Iterate(body, <<1>>, 0, to - from + 1)
  IN [di \in 1 .. Len(low) |-> Digits[low[Len(low) + 1 - di] + 1]]

\* combinations(n, k) for the arguments of the last call is the binomial
\* coefficient, and neither product it forms has wrapped
CombinationsExact ==
  /\ ar.result \subseteq IntBits
  /\ WVal(ar.result) = Binomial(ar.n, ar.k)
  /\ ar.n >= 1 => WDecimal(product_w(ar.n + 1 - ar.k, ar.n))
                    = ExactProduct(ar.n + 1 - ar.k, ar.n)
  /\ WDecimal(factorial_w(ar.k)) = ExactProduct(1, ar.k)

\* C30: for all 0 <= k <= n <= 20, combinations(n, k) returns the binomial
\* coefficient C(n, k), including C(n, 0) = 1 and C(0, 0) = 1, without an
\* intermediate 64-bit overflow, and sum_of_combinations(n, 2) returns
\* 2^n - n - 1.
C30_BinomialAndSum ==
  (pc = "arithmetic" /\ ar.n <= 20) =>
    /\ ar.fn = "combinations" => CombinationsExact
    /\ ar.fn = "sum_of_combinations" =>
         /\ ar.result \subseteq IntBits
         /\ WVal(ar.result) = Pow2(ar.n) - ar.n - 1

\* combinations(0, 0) has returned 0
C30_Witness ==
  /\ pc = "arithmetic"
  /\ ar = [fn |-> "combinations", n |-> 0, k |-> 0, result |-> WZero]
  /\ Binomial(0, 0) = 1

\* every other call returns what C30 states
C30_AllButZeroZero ==
  (pc = "arithmetic" /\ ar.n <= 20) =>
    /\ (ar.fn = "combinations" /\ ar.n >= 1) => CombinationsExact
    /\ ar.fn = "sum_of_combinations" =>
         /\ ar.result \subseteq IntBits
         /\ WVal(ar.result) = Pow2(ar.n) - ar.n - 1

=============================================================================
